---- MODULE Spec2Model ----
(***************************************************************************)
(* Model of the n8n node "OpenAI GPT-5" (src/nodes/OpenAiGpt5).            *)
(*                                                                         *)
(* The repository holds two variants of the node's execute function:       *)
(*   - the operation-based one (aiToolMode / uploadAndProcess /            *)
(*     processFileId), OpenAiGpt5.node.ts lines 498-970;                   *)
(*   - the prompt/pdfFiles/imageFiles one, lines 1305-1758, with its       *)
(*     helper parseFileInput.                                              *)
(*                                                                         *)
(* JavaScript strings that the code inspects are sequences of characters.  *)
(* A character is a one-letter string, or a lexeme that the code only ever *)
(* treats as a unit ("file_", "https://", "null", "url", ...).             *)
(* JavaScript values are tagged records:                                   *)
(*   [t |-> "str", s |-> chars]   [t |-> "num", d |-> digits]              *)
(*   [t |-> "null"]  [t |-> "undef"]                                       *)
(*   [t |-> "arr", a |-> values]  [t |-> "obj", o |-> <<key, value>> list] *)
(***************************************************************************)
EXTENDS Integers, Sequences, FiniteSets, TLC

VARIABLES
  pc,             \* position of the running function
  input,          \* parseFileInput: the argument
  tokens,         \* parseFileInput: the returned list
  variant,        \* which execute runs: "operation" or "files"
  operation,      \* getNodeParameter('operation', 0)
  continueOnFail, \* this.continueOnFail()
  items,          \* this.getInputData(): per item, the names of its binary properties
  i,              \* the loop index of execute (rows are numbered from 1)
  returnData,     \* the records pushed so far
  calls,          \* every HTTP request issued so far, in order
  raised,         \* the message of the NodeOperationError thrown to the caller
  params,         \* the node parameters read for row i
  fileId,         \* the local fileId of the iteration
  uploadedId,     \* the id the iteration's own upload to /v1/files returned
  requestBody,    \* the local requestBody of the iteration
  response,       \* the body of the answer of /v1/responses
  outputData      \* the record of the iteration: outputData, or the error record

vars == <<pc, input, tokens, variant, operation, continueOnFail, items, i, returnData,
          calls, raised, params, fileId, uploadedId, requestBody, response, outputData>>

parseVars == <<input, tokens>>

batchVars == <<variant, operation, continueOnFail, items>>

loopVars == <<i, returnData, calls, raised>>

rowVars == <<params, fileId, uploadedId, requestBody, response, outputData>>

----------------------------------------------------------------------------
(* Characters and character classes                                        *)

\* \s of the regular expressions and of String.prototype.trim
IsSpace(c) == c = " "

\* [a-zA-Z0-9]
IsAlnum(c) == c \in {"a", "b", "1", "null", "url", "path", "value", "data", "body", "k", "object", "Object"}

\* [0-9]
IsDigit(c) == c = "1"

\* the http:// or https:// scheme, matched by https?:\/\/
IsScheme(c) == c \in {"http://", "https://"}

Str(s) == [t |-> "str", s |-> s]

Num(d) == [t |-> "num", d |-> d]

Null == [t |-> "null"]

Undef == [t |-> "undef"]

Arr(a) == [t |-> "arr", a |-> a]

Obj(o) == [t |-> "obj", o |-> o]

----------------------------------------------------------------------------
(* String.prototype helpers                                                *)

RECURSIVE TrimLeft(_)
TrimLeft(s) == IF s /= <<>> /\ IsSpace(Head(s)) THEN TrimLeft(Tail(s)) ELSE s

RECURSIVE TrimRight(_)
TrimRight(s) == IF s /= <<>> /\ IsSpace(s[Len(s)]) THEN TrimRight(SubSeq(s, 1, Len(s) - 1)) ELSE s

\* s.trim()
Trim(s) == TrimRight(TrimLeft(s))

\* s.startsWith(c) for a one-character c
StartsWith(s, c) == s /= <<>> /\ Head(s) = c

\* s.endsWith(c) for a one-character c
EndsWith(s, c) == s /= <<>> /\ s[Len(s)] = c

\* s.includes(c) for a one-character c
Includes(s, c) == \E k \in 1..Len(s) : s[k] = c

\* s.split(','): the pieces between the commas, empty pieces included
RECURSIVE SplitFrom(_, _, _)
SplitFrom(s, k, cur) ==
  IF k > Len(s) THEN <<cur>>
  ELSE IF s[k] = "," THEN <<cur>> \o SplitFrom(s, k + 1, <<>>)
  ELSE SplitFrom(s, k + 1, Append(cur, s[k]))

SplitComma(s) == SplitFrom(s, 1, <<>>)

\* a.join(','), used by Array.prototype.toString
RECURSIVE JoinComma(_)
JoinComma(parts) ==
  IF parts = <<>> THEN <<>>
  ELSE IF Len(parts) = 1 THEN parts[1]
  ELSE parts[1] \o <<",">> \o JoinComma(Tail(parts))

\* the text "[object Object]" that String(x) gives for a plain object
ObjectObject == <<"[", "object", " ", "Object", "]">>


----------------------------------------------------------------------------
(* String(v) and JSON.stringify(v)                                         *)

\* the element texts Array.prototype.join uses: null and undefined give ""
RECURSIVE ToStr(_)
ToStr(v) ==
  CASE v.t = "str" -> v.s
    [] v.t = "num" -> v.d
    [] v.t = "null" -> <<"null">>
    [] v.t = "undef" -> <<"undefined">>
    [] v.t = "arr" ->
         JoinComma([k \in 1..Len(v.a) |->
           IF v.a[k].t \in {"null", "undef"} THEN <<>> ELSE ToStr(v.a[k])])
    [] v.t = "obj" -> ObjectObject

\* the characters of a string literal, with quote and backslash escaped
RECURSIVE Escape(_)
Escape(s) ==
  IF s = <<>> THEN <<>>
  ELSE IF Head(s) \in {"\"", "\\"} THEN <<"\\", Head(s)>> \o Escape(Tail(s))
  ELSE <<Head(s)>> \o Escape(Tail(s))

Quoted(s) == <<"\"">> \o Escape(s) \o <<"\"">>

RECURSIVE Stringify(_)
Stringify(v) ==
  CASE v.t = "str" -> Quoted(v.s)
    [] v.t = "num" -> v.d
    [] v.t = "null" -> <<"null">>
    [] v.t = "undef" -> <<"null">>
    [] v.t = "arr" ->
         <<"[">> \o JoinComma([k \in 1..Len(v.a) |-> Stringify(v.a[k])]) \o <<"]">>
    [] v.t = "obj" ->
         <<"{">> \o JoinComma([k \in 1..Len(v.o) |->
           Quoted(v.o[k][1]) \o <<":">> \o Stringify(v.o[k][2])]) \o <<"}">>

----------------------------------------------------------------------------
(* JSON.parse: a recursive-descent parser over the characters.  A result   *)
(* is [ok, v, p]: whether a value was read, the value, the next position.  *)

ParseFail == [ok |-> FALSE, v |-> Undef, p |-> 0]

ParseOk(v, p) == [ok |-> TRUE, v |-> v, p |-> p]

RECURSIVE SkipWs(_, _)
SkipWs(s, p) == IF p <= Len(s) /\ IsSpace(s[p]) THEN SkipWs(s, p + 1) ELSE p

\* the rest of a string literal whose opening quote was read
RECURSIVE ScanString(_, _, _)
ScanString(s, p, acc) ==
  IF p > Len(s) THEN ParseFail
  ELSE IF s[p] = "\"" THEN ParseOk(Str(acc), p + 1)
  ELSE IF s[p] = "\\" THEN
    IF p + 1 <= Len(s) /\ s[p + 1] \in {"\"", "\\"}
    THEN ScanString(s, p + 2, Append(acc, s[p + 1]))
    ELSE ParseFail
  ELSE ScanString(s, p + 1, Append(acc, s[p]))

RECURSIVE ScanDigits(_, _, _)
ScanDigits(s, p, acc) ==
  IF p <= Len(s) /\ IsDigit(s[p]) THEN ScanDigits(s, p + 1, Append(acc, s[p]))
  ELSE ParseOk(Num(acc), p)

RECURSIVE ParseValue(_, _)
RECURSIVE ParseElements(_, _, _)
RECURSIVE ParseMembers(_, _, _)

\* the elements of an array after "[" or ",": a value, then "," or "]"
ParseElements(s, p, acc) ==
  LET r == ParseValue(s, SkipWs(s, p)) IN
  IF ~r.ok THEN ParseFail
  ELSE LET q == SkipWs(s, r.p) IN
    IF q > Len(s) THEN ParseFail
    ELSE IF s[q] = "]" THEN ParseOk(Arr(Append(acc, r.v)), q + 1)
    ELSE IF s[q] = "," THEN ParseElements(s, q + 1, Append(acc, r.v))
    ELSE ParseFail

\* the members of an object after "{" or ",": "key" : value, then "," or "}"
ParseMembers(s, p, acc) ==
  LET k == SkipWs(s, p) IN
  IF k > Len(s) \/ s[k] /= "\"" THEN ParseFail
  ELSE LET key == ScanString(s, k + 1, <<>>) IN
    IF ~key.ok THEN ParseFail
    ELSE LET c == SkipWs(s, key.p) IN
      IF c > Len(s) \/ s[c] /= ":" THEN ParseFail
      ELSE LET r == ParseValue(s, SkipWs(s, c + 1)) IN
        IF ~r.ok THEN ParseFail
        ELSE LET q == SkipWs(s, r.p) IN
          IF q > Len(s) THEN ParseFail
          ELSE IF s[q] = "}" THEN ParseOk(Obj(Append(acc, <<key.v.s, r.v>>)), q + 1)
          ELSE IF s[q] = "," THEN ParseMembers(s, q + 1, Append(acc, <<key.v.s, r.v>>))
          ELSE ParseFail

ParseValue(s, p) ==
  IF p > Len(s) THEN ParseFail
  ELSE IF s[p] = "\"" THEN ScanString(s, p + 1, <<>>)
  ELSE IF IsDigit(s[p]) THEN ScanDigits(s, p, <<>>)
  ELSE IF s[p] = "null" THEN ParseOk(Null, p + 1)
  ELSE IF s[p] = "[" THEN
    LET q == SkipWs(s, p + 1) IN
    IF q <= Len(s) /\ s[q] = "]" THEN ParseOk(Arr(<<>>), q + 1)
    ELSE ParseElements(s, p + 1, <<>>)
  ELSE IF s[p] = "{" THEN
    LET q == SkipWs(s, p + 1) IN
    IF q <= Len(s) /\ s[q] = "}" THEN ParseOk(Obj(<<>>), q + 1)
    ELSE ParseMembers(s, p + 1, <<>>)
  ELSE ParseFail

\* JSON.parse(s): [ok |-> FALSE] stands for the SyntaxError it throws
JsonParse(s) ==
  LET r == ParseValue(s, SkipWs(s, 1)) IN
  IF r.ok /\ SkipWs(s, r.p) > Len(s) THEN r ELSE ParseFail


----------------------------------------------------------------------------
(* JavaScript value helpers                                                *)

\* the truthiness test of if (x), x && ..., !x
Truthy(v) ==
  CASE v.t = "str" -> v.s /= <<>>
    [] v.t = "num" -> v.d /= <<>> /\ v.d /= <<"0">>
    [] v.t \in {"null", "undef"} -> FALSE
    [] v.t \in {"arr", "obj"} -> TRUE

\* item.key: the property of an object, undefined when it has none
RECURSIVE GetFrom(_, _, _)
GetFrom(o, key, k) ==
  IF k = 0 THEN Undef
  ELSE IF o[k][1] = key THEN o[k][2]
  ELSE GetFrom(o, key, k - 1)

Get(v, key) == IF v.t = "obj" THEN GetFrom(v.o, <<key>>, Len(v.o)) ELSE Undef

\* a.flat(): the elements that are arrays are replaced by their elements
RECURSIVE Flat(_)
Flat(a) ==
  IF a = <<>> THEN <<>>
  ELSE IF Head(a).t = "arr" THEN Head(a).a \o Flat(Tail(a))
  ELSE <<Head(a)>> \o Flat(Tail(a))

\* a.filter(s => s): the non-empty strings of a list of strings
RECURSIVE NonEmpty(_)
NonEmpty(a) ==
  IF a = <<>> THEN <<>>
  ELSE IF Head(a) /= <<>> THEN <<Head(a)>> \o NonEmpty(Tail(a))
  ELSE NonEmpty(Tail(a))

\* a.filter(item => item && item !== '[object Object]')
RECURSIVE NonEmptyNonPlaceholder(_)
NonEmptyNonPlaceholder(a) ==
  IF a = <<>> THEN <<>>
  ELSE IF Head(a) /= <<>> /\ Head(a) /= ObjectObject
    THEN <<Head(a)>> \o NonEmptyNonPlaceholder(Tail(a))
  ELSE NonEmptyNonPlaceholder(Tail(a))

\* a deviation from SplitTrimFilter: the parts are not trimmed
SplitFilterUntrimmed(s) == NonEmpty(SplitComma(s))

\* s.split(',').map(x => x.trim()).filter(x => x)
SplitTrimFilter(s) ==
  LET parts == SplitComma(s) IN
  NonEmpty([k \in 1..Len(parts) |-> Trim(parts[k])])

----------------------------------------------------------------------------
(* parseFileInput, OpenAiGpt5.node.ts 1312-1385                            *)

\* [^\s,\]] of the fallback regular expression
IsFallbackUrlChar(c) == ~IsSpace(c) /\ c /= "," /\ c /= "]"

\* the last position of the run of characters from p on that satisfy the class
RECURSIVE UrlRunEnd(_, _)
UrlRunEnd(s, p) ==
  IF p + 1 <= Len(s) /\ IsFallbackUrlChar(s[p + 1]) THEN UrlRunEnd(s, p + 1) ELSE p

RECURSIVE AlnumRunEnd(_, _)
AlnumRunEnd(s, p) ==
  IF p + 1 <= Len(s) /\ IsAlnum(s[p + 1]) THEN AlnumRunEnd(s, p + 1) ELSE p

\* trimmed.match(/(https?:\/\/[^\s,\]]+|file_[a-zA-Z0-9]+)/g): the matches,
\* left to right (the empty list stands for null)
RECURSIVE FallbackMatches(_, _)
FallbackMatches(s, p) ==
  IF p > Len(s) THEN <<>>
  ELSE IF IsScheme(s[p]) /\ p + 1 <= Len(s) /\ IsFallbackUrlChar(s[p + 1]) THEN
    LET e == UrlRunEnd(s, p + 1) IN <<SubSeq(s, p, e)>> \o FallbackMatches(s, e + 1)
  ELSE IF s[p] = "file_" /\ p + 1 <= Len(s) /\ IsAlnum(s[p + 1]) THEN
    LET e == AlnumRunEnd(s, p + 1) IN <<SubSeq(s, p, e)>> \o FallbackMatches(s, e + 1)
  ELSE FallbackMatches(s, p + 1)

\* the map callback of the array branch, lines 1319-1330
ArrayItemToString(item) ==
  IF item.t \in {"arr", "obj"} THEN
    IF Truthy(Get(item, "url")) THEN Trim(ToStr(Get(item, "url")))
    ELSE IF Truthy(Get(item, "path")) THEN Trim(ToStr(Get(item, "path")))
    ELSE IF Truthy(Get(item, "value")) THEN Trim(ToStr(Get(item, "value")))
    ELSE Stringify(item)
  ELSE Trim(ToStr(item))

\* the array branch, lines 1316-1331
ParseArrayInput(a) ==
  LET flattened == Flat(a) IN
  NonEmptyNonPlaceholder([k \in 1..Len(flattened) |-> ArrayItemToString(flattened[k])])

\* the map and filter of the JSON array string branch, line 1343
ParsedItemsToStrings(a) == NonEmpty([k \in 1..Len(a) |-> Trim(ToStr(a[k]))])

\* the string branch, lines 1334-1361
ParseStringInput(s) ==
  LET trimmed == Trim(s)
      bracketed == StartsWith(trimmed, "[") /\ EndsWith(trimmed, "]")
      parsed == JsonParse(trimmed)
      matches == FallbackMatches(trimmed, 1)
  IN
  IF trimmed = <<>> THEN <<>>
  ELSE IF bracketed /\ parsed.ok /\ parsed.v.t = "arr" THEN ParsedItemsToStrings(parsed.v.a)
  ELSE IF bracketed /\ ~parsed.ok /\ matches /= <<>> THEN matches
  ELSE IF Includes(trimmed, ",") THEN SplitTrimFilter(trimmed)
  ELSE <<trimmed>>

\* the last lines, 1378-1384: String(input).trim(), unless meaningless
ParseOtherInput(v) ==
  LET str == Trim(ToStr(v)) IN
  IF str /= <<>> /\ str /= ObjectObject /\ str /= <<"undefined">> /\ str /= <<"null">>
  THEN <<str>> ELSE <<>>

\* parseFileInput(input): the list of tokens
ParseFileInput(v) ==
  IF ~Truthy(v) THEN <<>>
  ELSE IF v.t = "arr" THEN ParseArrayInput(v.a)
  ELSE IF v.t = "str" THEN ParseStringInput(v.s)
  ELSE IF v.t = "obj" THEN
    IF Truthy(Get(v, "data")) /\ Get(v, "data").t = "arr" THEN ParseArrayInput(Get(v, "data").a)
    ELSE IF Truthy(Get(v, "body")) /\ Get(v, "body").t = "arr" THEN ParseArrayInput(Get(v, "body").a)
    ELSE IF Truthy(Get(v, "url")) THEN <<Trim(ToStr(Get(v, "url")))>>
    ELSE IF Truthy(Get(v, "path")) THEN <<Trim(ToStr(Get(v, "path")))>>
    ELSE IF Truthy(Get(v, "value")) THEN <<Trim(ToStr(Get(v, "value")))>>
    ELSE ParseOtherInput(v)
  ELSE ParseOtherInput(v)


----------------------------------------------------------------------------
(* Request bodies.  A request body, like every JSON object the node builds, *)
(* is a function from the keys it holds to their values: a key that is not *)
(* in its DOMAIN is a key the request does not carry.  A node option that  *)
(* the user has not set is Unset (the value undefined).                    *)

Unset == "unset"

NoKeys == [k \in {} |-> k]

Has(obj, key) == key \in DOMAIN obj

\* model identifiers, as characters; a model option that is not set is falsy
\* in `model || 'gpt-5'`, as the empty string is
NoModel == <<>>

Gpt5 == <<"gpt-5">>

Gpt5Mini == <<"gpt-5", "-mini">>

Gpt5Nano == <<"gpt-5", "-nano">>

Gpt41 == <<"gpt-4.1">>

Gpt41Mini == <<"gpt-4.1", "-mini">>

Gpt41Nano == <<"gpt-4.1", "-nano">>

O3 == <<"o", "3">>

O3Mini == <<"o", "3", "-mini">>

O3Pro == <<"o", "3", "-pro">>

O4Mini == <<"o", "4", "-mini">>

\* modelString.startsWith('gpt-5')
StartsWithGpt5(m) == StartsWith(m, "gpt-5")

\* modelStr.startsWith('gpt-4.1')
StartsWithGpt41(m) == StartsWith(m, "gpt-4.1")

\* modelString.match(/^o[134]/)
MatchesOSeries(m) == Len(m) >= 2 /\ m[1] = "o" /\ m[2] \in {"1", "3", "4"}

\* if (x) for a number option: set and not 0
TruthyNumber(x) == x /= Unset /\ x /= "0"

\* if (x) for a string option: set and not ''
TruthyOption(x) == x /= Unset /\ x /= ""

\* the one user turn of the list form of `input`
UserTurn(content) == Arr(<<[role |-> "user", content |-> content]>>)

InputText(prompt) == [type |-> "input_text", text |-> prompt]

\* id is a JavaScript value: a string, or undefined
InputFileId(id) == [type |-> "input_file", file_id |-> id]

----------------------------------------------------------------------------
(* The operation-based execute: request building, lines 631-868           *)

\* lines 637-658: the list form with the file, or the prompt string
OperationInput(op, prompt, fid) ==
  IF \/ op = "uploadAndProcess"
     \/ op = "processFileId"
     \/ (op = "aiToolMode" /\ Truthy(fid))
  THEN UserTurn(<<InputText(prompt), InputFileId(fid)>>)
  ELSE Str(prompt)

\* lines 664-683: the Additional Files collection
RECURSIVE AdditionalFilesContents(_)
AdditionalFilesContents(files) ==
  IF files = <<>> THEN <<>>
  ELSE LET file == Head(files) IN
    (IF file.fileSource = "fileId" THEN <<InputFileId(Str(file.fileId))>>
     ELSE IF file.fileSource = "url"
       THEN <<[type |-> "input_image", image |-> [url |-> file.url]]>>
     ELSE <<>>) \o AdditionalFilesContents(Tail(files))

\* parsed.map(item => typeof item === 'string' ? item : String(item))
ItemsAsStrings(a) == [k \in 1..Len(a) |-> ToStr(a[k])]

\* [^\s\]}"'] of the URL expression of line 744
IsBulkUrlChar(c) == ~IsSpace(c) /\ c \notin {"]", "}", "\"", "'"}

RECURSIVE BulkUrlRunEnd(_, _)
BulkUrlRunEnd(s, p) ==
  IF p + 1 <= Len(s) /\ IsBulkUrlChar(s[p + 1]) THEN BulkUrlRunEnd(s, p + 1) ELSE p

\* fileRefStr.match(/(https?:\/\/[^\s\]}"']+)/): the first match, or the
\* whole string when there is none (lines 742-747)
RECURSIVE BulkUrlFrom(_, _)
BulkUrlFrom(s, p) ==
  IF p > Len(s) THEN s
  ELSE IF IsScheme(s[p]) /\ p + 1 <= Len(s) /\ IsBulkUrlChar(s[p + 1])
    THEN SubSeq(s, p, BulkUrlRunEnd(s, p + 1))
  ELSE BulkUrlFrom(s, p + 1)

BulkUrl(s) == BulkUrlFrom(s, 1)

\* lines 690-694: the comma-separated list (a value that is not a string
\* has no trim method: the TypeError ends the whole bulk block)
BulkListThrows(fileList) == Truthy(fileList) /\ fileList.t /= "str"

BulkListFiles(fileList) ==
  IF Truthy(fileList) /\ Trim(fileList.s) /= <<>> THEN SplitTrimFilter(fileList.s) ELSE <<>>

\* lines 697-713: the array expression field
BulkArrayFiles(fileArray) ==
  IF ~Truthy(fileArray) THEN <<>>
  ELSE IF fileArray.t = "str" /\ Trim(fileArray.s) /= <<>> THEN
    LET parsed == JsonParse(fileArray.s) IN
    IF ~parsed.ok THEN <<Trim(fileArray.s)>>
    ELSE IF parsed.v.t = "arr" THEN ItemsAsStrings(parsed.v.a)
    ELSE <<>>
  ELSE IF fileArray.t = "arr" THEN ItemsAsStrings(fileArray.a)
  ELSE <<>>

\* lines 716-727: the JSON string field
BulkJsonThrows(jsonString) == Truthy(jsonString) /\ jsonString.t /= "str"

BulkJsonFiles(jsonString) ==
  IF Truthy(jsonString) /\ Trim(jsonString.s) /= <<>> THEN
    LET parsed == JsonParse(jsonString.s) IN
    IF parsed.ok /\ parsed.v.t = "arr" THEN ItemsAsStrings(parsed.v.a) ELSE <<>>
  ELSE <<>>

\* lines 730-755: one segment for a file identifier or a URL, none otherwise
RECURSIVE BulkSegments(_)
BulkSegments(bulkFiles) ==
  IF bulkFiles = <<>> THEN <<>>
  ELSE LET fileRefStr == Trim(Head(bulkFiles)) IN
    (IF Head(bulkFiles) = <<>> THEN <<>>
     ELSE IF StartsWith(fileRefStr, "file_") THEN <<InputFileId(Str(fileRefStr))>>
     ELSE IF Includes(fileRefStr, "http://") \/ Includes(fileRefStr, "https://")
       THEN <<[type |-> "input_image", image |-> [url |-> BulkUrl(fileRefStr)]]>>
     ELSE <<>>) \o BulkSegments(Tail(bulkFiles))

\* lines 686-759: the three bulk fields, inside their own try/catch
BulkFileContents(opts) ==
  IF BulkListThrows(opts.bulkFileList) \/ BulkJsonThrows(opts.bulkFileJsonString) THEN <<>>
  ELSE BulkSegments(BulkListFiles(opts.bulkFileList)
                      \o BulkArrayFiles(opts.bulkFileArray)
                      \o BulkJsonFiles(opts.bulkFileJsonString))

\* const model = additionalOptions.model || 'gpt-5', line 632
OperationModel(opts) == IF opts.model = NoModel THEN Gpt5 ELSE opts.model

\* lines 812-817: the additional segments go behind the file of a list input
OperationInputWithFiles(inputValue, additionalFileContents) ==
  IF additionalFileContents /= <<>> /\ inputValue.t = "arr"
  THEN UserTurn(inputValue.a[1].content \o additionalFileContents)
  ELSE inputValue

\* lines 820-822
OperationMaxTokens(opts) ==
  IF TruthyNumber(opts.maxTokens) THEN [max_tokens |-> opts.maxTokens] ELSE NoKeys

\* lines 823-827
OperationTemperature(opts, model) ==
  IF opts.temperature /= Unset /\ ~StartsWithGpt5(model)
  THEN [temperature |-> opts.temperature] ELSE NoKeys

\* lines 832-840: reasoningConfig
ReasoningConfig(effort, summary) ==
  (IF TruthyOption(effort) THEN [effort |-> effort] ELSE NoKeys)
    @@ (IF TruthyOption(summary) /\ summary /= "none" THEN [summary |-> summary] ELSE NoKeys)

\* a deviation from OSeriesReasoning: the o-series get the nested object too
OSeriesReasoningNested(reasoningConfig) == [reasoning |-> reasoningConfig]

\* lines 849-855: the o-series placement of effort and summary
OSeriesReasoning(reasoningConfig) ==
  (IF Has(reasoningConfig, "effort")
     THEN [reasoning_effort |-> reasoningConfig.effort] ELSE NoKeys)
    @@ (IF Has(reasoningConfig, "summary")
          THEN [reasoning |-> [summary |-> reasoningConfig.summary]] ELSE NoKeys)

\* lines 842-857
OperationReasoning(opts, model) ==
  LET reasoningConfig == ReasoningConfig(opts.reasoningEffort, opts.reasoningSummary) IN
  IF DOMAIN reasoningConfig = {} THEN NoKeys
  ELSE IF StartsWithGpt5(model) THEN [reasoning |-> reasoningConfig]
  ELSE IF MatchesOSeries(model) THEN OSeriesReasoning(reasoningConfig)
  ELSE NoKeys

\* a deviation from OperationVerbosity: the model is not looked at
OperationVerbosityAnyModel(opts, model) ==
  IF TruthyOption(opts.verbosity) THEN [text |-> [verbosity |-> opts.verbosity]] ELSE NoKeys

\* lines 859-868
OperationVerbosity(opts, model) ==
  IF StartsWithGpt5(model) /\ TruthyOption(opts.verbosity)
  THEN [text |-> [verbosity |-> opts.verbosity]] ELSE NoKeys

\* the request body of lines 631-868; binaryContents are the segments of the
\* Process All Binary Items uploads (lines 761-810)
OperationRequestBody(op, prompt, fid, opts, binaryContents) ==
  LET model == OperationModel(opts)
      additionalFileContents ==
        AdditionalFilesContents(opts.additionalFiles) \o BulkFileContents(opts) \o binaryContents
  IN [model |-> model,
      input |-> OperationInputWithFiles(OperationInput(op, prompt, fid),
                                        additionalFileContents)]
       @@ OperationMaxTokens(opts)
       @@ OperationTemperature(opts, model)
       @@ OperationReasoning(opts, model)
       @@ OperationVerbosity(opts, model)

----------------------------------------------------------------------------
(* The prompt/pdfFiles/imageFiles execute: request building, 1395-1556     *)

\* a deviation from QuickModel: no substitution
QuickModelUnchanged(model) == model

\* lines 1403-1414: the faster sibling of a model in quick mode
QuickModel(model) ==
  IF model = Gpt5 THEN Gpt5Mini
  ELSE IF model = Gpt41 THEN Gpt41Mini
  ELSE IF model = O3 THEN O3Mini
  ELSE model

\* let model = options.model || 'gpt-5', then the quick mode override
FilesModel(options) ==
  LET model == IF options.model = NoModel THEN Gpt5 ELSE options.model IN
  IF options.quickMode = TRUE THEN QuickModel(model) ELSE model

\* lines 1400-1405
FilesReasoningEffort(options) ==
  IF options.quickMode = TRUE THEN "low" ELSE options.reasoningEffort

\* lines 1401-1406
FilesSearchContextSize(options, webSearch) ==
  IF options.quickMode = TRUE THEN "medium" ELSE webSearch.searchContextSize

\* lines 1436-1449: the segments of the PDF tokens
RECURSIVE PdfSegments(_)
PdfSegments(pdfIds) ==
  IF pdfIds = <<>> THEN <<>>
  ELSE LET pdfId == Head(pdfIds) IN
    (IF StartsWith(pdfId, "file_") THEN <<InputFileId(Str(pdfId))>>
     ELSE IF Includes(pdfId, "http://") \/ Includes(pdfId, "https://")
       THEN <<[type |-> "input_file", file_url |-> Str(pdfId)]>>
     ELSE <<>>) \o PdfSegments(Tail(pdfIds))

\* lines 1452-1466: the segments of the image tokens
RECURSIVE ImageSegments(_)
ImageSegments(images) ==
  IF images = <<>> THEN <<>>
  ELSE LET image == Head(images) IN
    (IF StartsWith(image, "file_") THEN <<[type |-> "input_image", file_id |-> Str(image)]>>
     ELSE IF Includes(image, "http://") \/ Includes(image, "https://")
       THEN <<[type |-> "input_image", image_url |-> Str(image)]>>
     ELSE <<>>) \o ImageSegments(Tail(images))

\* lines 1426-1479
FilesInput(prompt, pdfIds, images) ==
  LET contentArray == <<InputText(prompt)>> \o PdfSegments(pdfIds) \o ImageSegments(images) IN
  IF Len(pdfIds) > 0 \/ Len(images) > 0 THEN UserTurn(contentArray) ELSE Str(prompt)

\* lines 1482-1484
FilesMaxTokens(options) ==
  IF TruthyNumber(options.maxTokens) THEN [max_tokens |-> options.maxTokens] ELSE NoKeys

\* lines 1486-1488
FilesTemperature(options, model) ==
  IF options.temperature /= Unset THEN [temperature |-> options.temperature] ELSE NoKeys

\* lines 1490-1505
FilesReasoning(options, model) ==
  LET reasoningEffort == FilesReasoningEffort(options) IN
  IF /\ (TruthyOption(reasoningEffort) \/ TruthyOption(options.reasoningSummary))
     /\ (StartsWithGpt5(model) \/ StartsWithGpt41(model))
  THEN [reasoning |-> ReasoningConfig(reasoningEffort, options.reasoningSummary)]
  ELSE NoKeys

\* domains.slice(0, 20), line 1529
MaxAllowedDomains == 20

\* a deviation from AllowedDomainsFilter: the list is not cut
AllowedDomainsFilterUncut(webSearch) ==
  IF Truthy(webSearch.allowedDomains) /\ webSearch.allowedDomains.t = "str" THEN
    LET domains == SplitTrimFilter(webSearch.allowedDomains.s) IN
    IF Len(domains) > 0 THEN [filters |-> [allowed_domains |-> domains]] ELSE NoKeys
  ELSE NoKeys

\* lines 1520-1532
AllowedDomainsFilter(webSearch) ==
  IF Truthy(webSearch.allowedDomains) /\ webSearch.allowedDomains.t = "str" THEN
    LET domains == SplitTrimFilter(webSearch.allowedDomains.s) IN
    IF Len(domains) > 0
    THEN [filters |-> [allowed_domains |->
            SubSeq(domains, 1, IF Len(domains) < MaxAllowedDomains
                                 THEN Len(domains) ELSE MaxAllowedDomains)]]
    ELSE NoKeys
  ELSE NoKeys

\* lines 1534-1547 (a location that is not set is one with four empty fields)
UserLocation(webSearch) ==
  LET location == webSearch.userLocation IN
  IF location.country /= "" \/ location.city /= "" \/ location.region /= ""
       \/ location.timezone /= ""
  THEN [user_location |->
          [type |-> "approximate"]
            @@ (IF location.country /= "" THEN [country |-> location.country] ELSE NoKeys)
            @@ (IF location.city /= "" THEN [city |-> location.city] ELSE NoKeys)
            @@ (IF location.region /= "" THEN [region |-> location.region] ELSE NoKeys)
            @@ (IF location.timezone /= "" THEN [timezone |-> location.timezone] ELSE NoKeys)]
  ELSE NoKeys

\* lines 1507-1556: the web_search tool and the include directive
FilesWebSearch(options, webSearch) ==
  IF webSearch.enabled = TRUE THEN
    LET searchContextSize == FilesSearchContextSize(options, webSearch)
        contextSize == IF TruthyOption(searchContextSize) THEN searchContextSize
                       ELSE webSearch.searchContextSize
        webSearchTool ==
          [type |-> "web_search"]
            @@ (IF TruthyOption(contextSize) THEN [search_context_size |-> contextSize] ELSE NoKeys)
            @@ AllowedDomainsFilter(webSearch)
            @@ UserLocation(webSearch)
    IN [tools |-> <<webSearchTool>>]
         @@ (IF webSearch.includeSources = TRUE
               THEN [include |-> <<"web_search_call.action.sources">>] ELSE NoKeys)
  ELSE NoKeys

\* the request body of lines 1417-1556
FilesRequestBody(prompt, pdfFiles, imageFiles, options, webSearch) ==
  LET model == FilesModel(options) IN
  [model |-> model,
   input |-> FilesInput(prompt, ParseFileInput(pdfFiles), ParseFileInput(imageFiles))]
    @@ FilesMaxTokens(options)
    @@ FilesTemperature(options, model)
    @@ FilesReasoning(options, model)
    @@ FilesWebSearch(options, webSearch)

----------------------------------------------------------------------------
(* Response extraction                                                     *)

\* a deviation from EmptyString: no default text
MissingText == Undef

\* '' , the initial textContent and the default of every || ''
EmptyString == Str(<<>>)

\* a[0], undefined when a is not a list or is empty
First(v) == IF v.t = "arr" /\ Len(v.a) > 0 THEN v.a[1] ELSE Undef

\* x || y
OrElse(x, y) == IF Truthy(x) THEN x ELSE y

\* x === 'type' for a string of one lexeme
IsString(v, lexeme) == v.t = "str" /\ v.s = <<lexeme>>

\* a deviation from LegacyContent: the message's text member is read
LegacyContentFromText(resp) == Get(Get(First(Get(resp, "choices")), "message"), "text")

\* response.choices?.[0]?.message?.content
LegacyContent(resp) == Get(Get(First(Get(resp, "choices")), "message"), "content")

\* lines 890-911: the text of AI Tool Mode
AiToolText(resp) ==
  LET output == First(Get(resp, "output"))
      fromOutput ==
        IF Truthy(Get(resp, "output")) /\ Truthy(output)
             /\ Truthy(Get(output, "content")) /\ Truthy(First(Get(output, "content")))
        THEN OrElse(Get(First(Get(output, "content")), "text"), EmptyString)
        ELSE EmptyString
  IN IF ~Truthy(fromOutput) THEN OrElse(LegacyContent(resp), EmptyString) ELSE fromOutput

\* lines 906-911
AiToolOutput(resp, fid, model) ==
  [text |-> AiToolText(resp),
   fileId |-> fid,
   model |-> OrElse(Get(resp, "model"), Str(model)),
   usage |-> Get(resp, "usage")]

\* lines 914-918: the whole response, with the file identifier and the prompt
RegularOutput(resp, fid, prompt) ==
  [response |-> resp, fileId |-> fid, prompt |-> Str(prompt)]

\* lines 1612-1617: the url_citation annotations, mapped
RECURSIVE Citations(_)
Citations(annotations) ==
  IF annotations = <<>> THEN <<>>
  ELSE LET c == Head(annotations) IN
    (IF IsString(Get(c, "type"), "url_citation")
     THEN <<[url |-> Get(c, "url"), title |-> Get(c, "title"),
             startIndex |-> Get(c, "start_index"), endIndex |-> Get(c, "end_index")]>>
     ELSE <<>>) \o Citations(Tail(annotations))

\* the first entry of a content list that is an output_text with a text, as
\* the inner loops of lines 1607-1621 and 1625-1630 find it; 0 when none
RECURSIVE FirstOutputText(_, _)
FirstOutputText(content, k) ==
  IF k > Len(content) THEN 0
  ELSE IF IsString(Get(content[k], "type"), "output_text") /\ Truthy(Get(content[k], "text")) THEN k
  ELSE FirstOutputText(content, k + 1)

\* one turn of the loop of lines 1590-1632 over response.output; acc holds
\* textContent, citations, webSearchResults and sources
ScanOutput(output, acc) ==
  LET content == Get(output, "content")
      action == Get(output, "action")
      hasContent == Truthy(content) /\ content.t = "arr"
      k == IF hasContent THEN FirstOutputText(content.a, 1) ELSE 0
  IN
  IF IsString(Get(output, "type"), "web_search_call") THEN
    [acc EXCEPT
       !.webSearchResults =
          [id |-> Get(output, "id"), status |-> Get(output, "status"),
           query |-> OrElse(Get(action, "query"), Null),
           domains |-> OrElse(Get(action, "domains"), Arr(<<>>)),
           sources |-> OrElse(Get(action, "sources"), Arr(<<>>))],
       !.sources = IF Truthy(Get(action, "sources")) /\ Get(action, "sources").t = "arr"
                   THEN Get(action, "sources").a ELSE @]
  ELSE IF IsString(Get(output, "type"), "message") /\ hasContent THEN
    IF k = 0 THEN acc
    ELSE [acc EXCEPT
            !.textContent = Get(content.a[k], "text"),
            !.citations =
               IF Truthy(Get(content.a[k], "annotations"))
                    /\ Get(content.a[k], "annotations").t = "arr"
               THEN Citations(Get(content.a[k], "annotations").a) ELSE @]
  ELSE IF hasContent THEN
    IF k = 0 THEN acc ELSE [acc EXCEPT !.textContent = Get(content.a[k], "text")]
  ELSE acc

RECURSIVE ScanOutputs(_, _)
ScanOutputs(outputs, acc) ==
  IF outputs = <<>> THEN acc ELSE ScanOutputs(Tail(outputs), ScanOutput(Head(outputs), acc))

NoSearchResults == [id |-> Undef]

\* lines 1578-1637: textContent, citations, webSearchResults, sources
FilesExtract(resp) ==
  LET start == [textContent |-> EmptyString, citations |-> <<>>,
                webSearchResults |-> NoSearchResults, sources |-> <<>>] IN
  IF Truthy(Get(resp, "output_text"))
    THEN [start EXCEPT !.textContent = Get(resp, "output_text")]
  ELSE IF Truthy(Get(resp, "output")) /\ Get(resp, "output").t = "arr"
    THEN ScanOutputs(Get(resp, "output").a, start)
  ELSE IF Truthy(LegacyContent(resp))
    THEN [start EXCEPT !.textContent = LegacyContent(resp)]
  ELSE start

\* the first summary_text entry with a text, lines 1645-1650
RECURSIVE FirstSummaryText(_)
FirstSummaryText(summary) ==
  IF summary = <<>> THEN Null
  ELSE IF IsString(Get(Head(summary), "type"), "summary_text") /\ Truthy(Get(Head(summary), "text"))
    THEN Get(Head(summary), "text")
  ELSE FirstSummaryText(Tail(summary))

\* lines 1639-1651
FilesReasoningSummary(resp) ==
  IF Truthy(Get(resp, "reasoning")) /\ Truthy(Get(Get(resp, "reasoning"), "summary"))
    THEN Get(Get(resp, "reasoning"), "summary")
  ELSE IF Truthy(Get(resp, "summary")) /\ Get(resp, "summary").t = "arr"
    THEN FirstSummaryText(Get(resp, "summary").a)
  ELSE Null

\* lines 1653-1684: the output record
FilesOutput(resp, model, pdfIds, images, options, webSearch) ==
  LET got == FilesExtract(resp)
      reasoningSummary == FilesReasoningSummary(resp)
  IN [text |-> got.textContent,
      model |-> OrElse(Get(resp, "model"), Str(model)),
      usage |-> Get(resp, "usage"),
      pdfCount |-> Len(pdfIds),
      imageCount |-> Len(images),
      timeout |-> IF TruthyNumber(options.timeout) THEN options.timeout ELSE "600",
      quickMode |-> options.quickMode,
      fullResponse |-> resp]
       @@ (IF got.webSearchResults /= NoSearchResults
             THEN [webSearch |-> got.webSearchResults] ELSE NoKeys)
       @@ (IF Len(got.citations) > 0 THEN [citations |-> got.citations] ELSE NoKeys)
       @@ (IF webSearch.includeSources = TRUE /\ Len(got.sources) > 0
             THEN [sources |-> got.sources] ELSE NoKeys)
       @@ (IF Truthy(reasoningSummary) THEN [reasoningSummary |-> reasoningSummary] ELSE NoKeys)

----------------------------------------------------------------------------
(* Errors and the catch blocks                                             *)

\* a thrown value: error.code, error.message, error.response
ErrorValue(code, message, resp) == [code |-> code, message |-> message, response |-> resp]

\* lines 932-943, 1716-1724: the message and the details of an HTTP error
HttpErrorMessage(resp) ==
  LET body == Get(resp, "body")
      fallback == OrElse(Get(resp, "statusText"), Str(<<"HTTP ">> \o ToStr(Get(resp, "status"))))
  IN IF Truthy(body) /\ Truthy(Get(body, "error"))
     THEN OrElse(Get(Get(body, "error"), "message"), fallback)
     ELSE fallback

HttpErrorDetails(resp) == IF Truthy(Get(resp, "body")) THEN Get(resp, "body") ELSE Obj(<<>>)

\* lines 929-943: errorMessage of the operation-based catch
OperationErrorMessage(error) ==
  IF Truthy(error.response) THEN HttpErrorMessage(error.response)
  ELSE IF Truthy(error.message) THEN error.message
  ELSE Str(<<"Unknown error">>)

OperationErrorDetails(error) ==
  IF Truthy(error.response) THEN HttpErrorDetails(error.response) ELSE Obj(<<>>)

\* a deviation from OperationErrorRecord: the record has no details
OperationErrorRecordWithoutDetails(error) ==
  [error |-> OperationErrorMessage(error), statusCode |-> Get(error.response, "status")]

\* lines 946-951: the error record of the operation-based execute
OperationErrorRecord(error) ==
  [error |-> OperationErrorMessage(error),
   details |-> OperationErrorDetails(error),
   statusCode |-> Get(error.response, "status")]

\* line 1698: the timeout test
IsTimeout(error) ==
  \/ error.code = Str(<<"ETIMEDOUT">>)
  \/ (error.message.t = "str" /\ Includes(error.message.s, "timeout"))
  \/ (error.message.t = "str" /\ Includes(error.message.s, "ETIMEDOUT"))

\* lines 1694-1732: errorMessage of the other catch
FilesErrorMessage(error, options) ==
  IF IsTimeout(error) THEN
    Str(<<"Request timed out after ">>
          \o <<IF TruthyNumber(options.timeout) THEN options.timeout ELSE "600">>
          \o <<" seconds.">>)
  ELSE IF Truthy(error.response) THEN HttpErrorMessage(error.response)
  ELSE IF Truthy(error.message) THEN
    IF Includes(error.message.s, "exceeded")
    THEN Str(error.message.s \o <<" Consider increasing timeout settings or using Quick Response Mode.">>)
    ELSE error.message
  ELSE Str(<<"Unknown error">>)

FilesErrorDetails(error, options) ==
  IF IsTimeout(error) THEN
    Obj(<< <<<<"timeout">>, Str(<<IF TruthyNumber(options.timeout) THEN options.timeout ELSE "600">>)>>,
           <<<<"quickModeAvailable">>, Str(<<IF options.quickMode THEN "false" ELSE "true">>)>> >>)
  ELSE IF Truthy(error.response) THEN HttpErrorDetails(error.response)
  ELSE Obj(<<>>)

\* lines 1735-1740: the error record of the other execute
FilesErrorRecord(error, options) ==
  [error |-> FilesErrorMessage(error, options), details |-> FilesErrorDetails(error, options)]

----------------------------------------------------------------------------
(* Outcomes of the calls the node awaits                                   *)

NoError == ErrorValue(Undef, Undef, Undef)

Ok(v) == [ok |-> TRUE, value |-> v, error |-> NoError]

Err(e) == [ok |-> FALSE, value |-> Undef, error |-> e]

\* an HTTP request as the log keeps it
HttpCall(row, method, host, path, ok) ==
  [row |-> row, method |-> method, host |-> host, path |-> path, ok |-> ok]

UploadCall(row, ok) == HttpCall(row, "POST", "baseUrl", "/v1/files", ok)

ResponsesCall(row, ok) == HttpCall(row, "POST", "baseUrl", "/v1/responses", ok)

DownloadCall(row, ok) == HttpCall(row, "GET", "fileUrl", "", ok)

\* what one iteration did: the requests issued, whether the try block ended
\* without a throw, the thrown error, and the locals it assigned
Run(callsMade, ok, error, id, uploaded, body, resp, out) ==
  [calls |-> callsMade, ok |-> ok, error |-> error, fileId |-> id, uploadedId |-> uploaded,
   requestBody |-> body, response |-> resp, outputData |-> out]

Thrown(callsMade, error, id, uploaded, body) ==
  Run(callsMade, FALSE, error, id, uploaded, body, Undef, NoKeys)

----------------------------------------------------------------------------
(* The iterations of the operation-based execute, lines 505-926            *)

\* additionalOptions of AI Tool Mode, lines 514-518
AiToolOptions ==
  [model |-> Gpt5, reasoningEffort |-> "medium", verbosity |-> "medium",
   maxTokens |-> Unset, temperature |-> Unset, reasoningSummary |-> Unset, purpose |-> Unset,
   additionalFiles |-> <<>>, bulkFileList |-> Undef, bulkFileArray |-> Undef,
   bulkFileJsonString |-> Undef, processAllBinaryItems |-> FALSE]

\* this.helpers.assertBinaryData(i, name) throws when the item has no such property
HasBinary(batch, row, name) == \E k \in 1..Len(batch[row]) : batch[row][k] = name

NoBinaryError ==
  ErrorValue(Undef, Str(<<"This operation expects the node's input data to contain a binary file">>), Undef)

\* the <<itemIndex, name>> pairs the loops of lines 764-768 visit, in order
RECURSIVE AllBinaries(_, _)
AllBinaries(batch, itemIndex) ==
  IF itemIndex > Len(batch) THEN <<>>
  ELSE [k \in 1..Len(batch[itemIndex]) |-> <<itemIndex, batch[itemIndex][k]>>]
         \o AllBinaries(batch, itemIndex + 1)

\* the id the provider gives the upload of one binary property
BinaryUploadId(pair) == Str(<<"file_", pair[2], ToString(pair[1])>>)

\* lines 762-810: the requests of the Process All Binary Items loop; fate[k]
\* is "ok", "readFail" (no request is issued) or "uploadFail"
RECURSIVE BinaryLoopCalls(_, _, _, _)
BinaryLoopCalls(row, binaries, fate, k) ==
  IF k > Len(binaries) THEN <<>>
  ELSE (IF fate[k] = "readFail" THEN <<>> ELSE <<UploadCall(row, fate[k] = "ok")>>)
         \o BinaryLoopCalls(row, binaries, fate, k + 1)

\* a deviation from BinaryLoopContents: the first failure ends the loop
RECURSIVE BinaryLoopContentsUntilFailure(_, _, _)
BinaryLoopContentsUntilFailure(binaries, fate, k) ==
  IF k > Len(binaries) \/ fate[k] /= "ok" THEN <<>>
  ELSE <<InputFileId(BinaryUploadId(binaries[k]))>>
         \o BinaryLoopContentsUntilFailure(binaries, fate, k + 1)

\* lines 799-802: one input_file segment per upload that succeeded
RECURSIVE BinaryLoopContents(_, _, _)
BinaryLoopContents(binaries, fate, k) ==
  IF k > Len(binaries) THEN <<>>
  ELSE (IF fate[k] = "ok" THEN <<InputFileId(BinaryUploadId(binaries[k]))>> ELSE <<>>)
         \o BinaryLoopContents(binaries, fate, k + 1)

\* a deviation from IssuedCalls: the completion request leaves first
IssuedCallsCompletionFirst(before, loopCalls, completionCall) ==
  <<completionCall>> \o before \o loopCalls

\* a deviation from IssuedCalls: the completion request is issued again
IssuedCallsCompletionTwice(before, loopCalls, completionCall) ==
  before \o loopCalls \o <<completionCall, completionCall>>

\* the order of the requests of one row: the primary upload (lines 561-625),
\* the Process All Binary Items uploads (761-810), the completion (870-885)
IssuedCalls(before, loopCalls, completionCall) ==
  before \o loopCalls \o <<completionCall>>

\* lines 631-926: from the request body to the record, common to the three
\* operations; before holds the requests already issued
OperationComplete(row, op, prompt, fid, uploaded, opts, batch, fate, completion, before) ==
  LET binaries == IF opts.processAllBinaryItems THEN AllBinaries(batch, 1) ELSE <<>>
      body == OperationRequestBody(op, prompt, fid, opts, BinaryLoopContents(binaries, fate, 1))
      issued == IssuedCalls(before, BinaryLoopCalls(row, binaries, fate, 1),
                            ResponsesCall(row, completion.ok))
  IN IF ~completion.ok THEN Thrown(issued, completion.error, fid, uploaded, body)
     ELSE Run(issued, TRUE, NoError, fid, uploaded, body, completion.value,
              IF op = "aiToolMode"
              THEN AiToolOutput(completion.value, fid, OperationModel(opts))
              ELSE RegularOutput(completion.value, fid, prompt))

\* lines 512-553 and 626-629: AI Tool Mode.  The upload assigns fileId; the
\* else branch of line 626 then assigns it again from the parameter fileId,
\* which the host either fails to find (it is not shown in this mode) or
\* returns
AiToolRun(row, p, batch, upload, fileIdParameter, completion) ==
  LET mustUpload == p.aiToolIncludeFile
      uploadCalls == IF mustUpload THEN <<UploadCall(row, upload.ok)>> ELSE <<>>
      uploaded == IF mustUpload /\ upload.ok THEN upload.value ELSE Undef
  IN IF mustUpload /\ ~HasBinary(batch, row, p.aiToolBinaryProperty)
       THEN Thrown(<<>>, NoBinaryError, Undef, Undef, NoKeys)
     ELSE IF mustUpload /\ ~upload.ok
       THEN Thrown(uploadCalls, upload.error, Undef, Undef, NoKeys)
     ELSE IF ~fileIdParameter.ok
       THEN Thrown(uploadCalls, fileIdParameter.error, uploaded, uploaded, NoKeys)
     ELSE OperationComplete(row, "aiToolMode", p.aiToolPrompt, fileIdParameter.value, uploaded,
                            AiToolOptions, batch, <<>>, completion, uploadCalls)

\* lines 556-625: Upload & Process
UploadAndProcessRun(row, p, batch, download, readFile, upload, fate, completion) ==
  LET downloadCalls == IF p.inputType = "url" THEN <<DownloadCall(row, download.ok)>> ELSE <<>>
      uploadCalls == downloadCalls \o <<UploadCall(row, upload.ok)>>
  IN IF p.inputType = "binary" /\ ~HasBinary(batch, row, p.binaryProperty)
       THEN Thrown(<<>>, NoBinaryError, Undef, Undef, NoKeys)
     ELSE IF p.inputType = "url" /\ ~download.ok
       THEN Thrown(downloadCalls, download.error, Undef, Undef, NoKeys)
     ELSE IF p.inputType = "filePath" /\ ~readFile.ok
       THEN Thrown(<<>>, readFile.error, Undef, Undef, NoKeys)
     ELSE IF ~upload.ok
       THEN Thrown(uploadCalls, upload.error, Undef, Undef, NoKeys)
     ELSE OperationComplete(row, "uploadAndProcess", p.prompt, upload.value, upload.value,
                            p.additionalOptions, batch, fate, completion, uploadCalls)

\* lines 556-557 and 626-629: Process with File ID
ProcessFileIdRun(row, p, batch, fate, completion) ==
  OperationComplete(row, "processFileId", p.prompt, p.fileId, Undef,
                    p.additionalOptions, batch, fate, completion, <<>>)

----------------------------------------------------------------------------
(* The iteration of the prompt/pdfFiles/imageFiles execute, 1387-1690      *)

FilesRun(row, p, completion) ==
  LET body == FilesRequestBody(p.prompt, p.pdfFiles, p.imageFiles, p.options, p.webSearch)
      issued == <<ResponsesCall(row, completion.ok)>>
  IN IF ~completion.ok THEN Thrown(issued, completion.error, Undef, Undef, body)
     ELSE Run(issued, TRUE, NoError, Undef, Undef, body, completion.value,
              FilesOutput(completion.value, FilesModel(p.options),
                          ParseFileInput(p.pdfFiles), ParseFileInput(p.imageFiles),
                          p.options, p.webSearch))

----------------------------------------------------------------------------
(* Bounded input domains of parseFileInput                                 *)

MaxStrLen == 4

MaxArrLen == 2

SeqsUpTo(S, n) == UNION {[1..k -> S] : k \in 0..n}

\* the characters the enumerated strings are made of
ParseChars == {"a", " ", ",", "[", "]", "\"", "file_", "https://"}

\* the example of the specification: "file_a , https://x/y.pdf ,,"
ExampleList == <<"file_", "a", " ", ",", " ", "https://", "a", " ", ",", ",">>

RawStrings == SeqsUpTo(ParseChars, MaxStrLen) \cup {ExampleList}

\* elements of the arrays an expression or a JSON text can hold
ArrayElems ==
  { Str(<<"file_", "a">>), Str(<<" ", "https://", "a">>), Str(<<>>), Num(<<"1">>), Null,
    Obj(<< <<<<"url">>, Str(<<"https://", "a">>)>> >>),
    Obj(<< <<<<"k">>, Num(<<"1">>)>> >>),
    Obj(<<>>),
    Arr(<<Str(<<"file_", "a">>), Str(<<"file_", "b">>)>>),
    Arr(<<>>) }

JsonArrays == {Arr(a) : a \in SeqsUpTo(ArrayElems, MaxArrLen)}

\* keyed inputs: a wrapper around a list, or a single reference
KeyedInputs ==
  { Obj(<< <<<<"data">>, Arr(<<Str(<<"file_", "a">>)>>)>> >>),
    Obj(<< <<<<"body">>, Arr(<<Str(<<"https://", "a">>), Obj(<<>>)>>)>> >>),
    Obj(<< <<<<"url">>, Str(<<" ", "https://", "a">>)>> >>),
    Obj(<< <<<<"url">>, Str(<<" ">>)>> >>),
    Obj(<< <<<<"path">>, Str(<<"a">>)>> >>),
    Obj(<< <<<<"value">>, Num(<<"1">>)>> >>),
    Obj(<< <<<<"k">>, Str(<<"a">>)>> >>),
    Obj(<<>>) }

ParseInputs ==
  {Str(s) : s \in RawStrings}
    \cup {Str(Stringify(v)) : v \in JsonArrays}
    \cup {Str(<<" ">> \o Stringify(v) \o <<" ">>) : v \in JsonArrays}
    \cup JsonArrays \cup KeyedInputs \cup {Null, Undef, Num(<<"1">>)}

----------------------------------------------------------------------------
(* Values of the variables a specification does not use                    *)

IdleRow ==
  /\ params = NoKeys
  /\ fileId = Undef
  /\ uploadedId = Undef
  /\ requestBody = NoKeys
  /\ response = Undef
  /\ outputData = NoKeys

IdleBatch ==
  /\ variant = "none"
  /\ operation = "none"
  /\ continueOnFail = FALSE
  /\ items = <<>>
  /\ i = 1
  /\ returnData = <<>>
  /\ calls = <<>>
  /\ raised = Undef

IdleParse ==
  /\ input = Undef
  /\ tokens = <<>>

----------------------------------------------------------------------------
(* parseFileInput as a function applied to one argument                    *)

InitParse ==
  /\ pc = "call"
  /\ input \in ParseInputs
  /\ tokens = <<>>
  /\ IdleBatch
  /\ IdleRow

CallParseFileInput ==
  /\ pc = "call"
  /\ tokens' = ParseFileInput(input)
  /\ pc' = "returned"
  /\ UNCHANGED <<input, batchVars, loopVars, rowVars>>

NextParse == CallParseFileInput

SpecParse == InitParse /\ [][NextParse]_vars

----------------------------------------------------------------------------
(* Claims about parseFileInput                                             *)

\* the trimmed string is wrapped in [ ] and is read by the JSON branch: it
\* parses as JSON, or the fallback expression finds a reference in it
ReadAsJsonArray(s) ==
  /\ StartsWith(Trim(s), "[") /\ EndsWith(Trim(s), "]")
  /\ (JsonParse(Trim(s)).ok \/ FallbackMatches(Trim(s), 1) /= <<>>)

\* the tokens of s split on commas, each trimmed, the empty ones removed
CommaTokens(s) ==
  LET parts == SplitComma(s) IN NonEmpty([k \in 1..Len(parts) |-> Trim(parts[k])])

\* C9 as stated: for every string s, parseFileInput(s) is the list of the
\* comma-separated tokens of s, trimmed, in order, without the empty ones.
C9_AsStated ==
  (pc = "returned" /\ input.t = "str") => tokens = CommaTokens(input.s)

\* C9 amended: the same, for every string s that is not read by the JSON
\* array branch (wrapped in [ ] and either valid JSON or holding a URL or a
\* file_ identifier).
C9_CommaSeparated ==
  (pc = "returned" /\ input.t = "str" /\ ~ReadAsJsonArray(input.s))
    => tokens = CommaTokens(input.s)

\* C9 witness: the specification's example has been parsed.
C9_Witness ==
  /\ pc = "returned"
  /\ input = Str(ExampleList)
  /\ tokens = << <<"file_", "a">>, <<"https://", "a">> >>

\* C10: for every string s that is a valid JSON array, parseFileInput(s)
\* equals parseFileInput(JSON.parse(s)).
C10_JsonStringAsParsedArray ==
  (/\ pc = "returned"
   /\ input.t = "str"
   /\ JsonParse(input.s).ok
   /\ JsonParse(input.s).v.t = "arr")
    => tokens = ParseFileInput(JsonParse(input.s).v)

\* a token without commas and without JSON syntax
IsPlainToken(token) ==
  \A k \in 1..Len(token) : token[k] \notin {",", "[", "]", "{", "}", "\"", ":"}

\* the list of tokens, as the array an expression would hand over
AsArray(tokenList) == Arr([k \in 1..Len(tokenList) |-> Str(tokenList[k])])

\* C11: a list of plain tokens that parseFileInput returned is returned
\* unchanged when it is given to parseFileInput again.
C11_PlainTokensAreFixed ==
  (pc = "returned" /\ \A k \in 1..Len(tokens) : IsPlainToken(tokens[k]))
    => ParseFileInput(AsArray(tokens)) = tokens

----------------------------------------------------------------------------
(* Bounded domains of the batch                                            *)

MaxItems == 2

\* the binary properties an input item can carry
BinaryChoices == {<<>>, <<"data">>}

ItemBatches == UNION {[1..n -> BinaryChoices] : n \in 1..MaxItems}

Prompts == {<<"hi">>}

FileP == Str(<<"file_", "p">>)

FileU == Str(<<"file_", "u">>)

\* additionalOptions with nothing set
NoOptions ==
  [model |-> NoModel, reasoningEffort |-> Unset, verbosity |-> Unset,
   maxTokens |-> Unset, temperature |-> Unset, reasoningSummary |-> Unset, purpose |-> Unset,
   additionalFiles |-> <<>>, bulkFileList |-> Undef, bulkFileArray |-> Undef,
   bulkFileJsonString |-> Undef, processAllBinaryItems |-> FALSE]

BatchOptions ==
  { NoOptions,
    [NoOptions EXCEPT !.processAllBinaryItems = TRUE] }

AiToolParams ==
  [aiToolPrompt : Prompts, aiToolIncludeFile : BOOLEAN, aiToolBinaryProperty : {"data"}]

UploadAndProcessParams ==
  [inputType : {"binary", "url", "filePath"}, binaryProperty : {"data"},
   prompt : Prompts, additionalOptions : BatchOptions]

ProcessFileIdParams ==
  [fileId : {FileP}, prompt : Prompts, additionalOptions : BatchOptions]

\* options and webSearch with nothing set
NoFilesOptions ==
  [model |-> NoModel, quickMode |-> FALSE, reasoningEffort |-> Unset, reasoningSummary |-> Unset,
   maxTokens |-> Unset, temperature |-> Unset, timeout |-> Unset]

NoLocation == [country |-> "", city |-> "", region |-> "", timezone |-> ""]

NoWebSearch ==
  [enabled |-> FALSE, searchContextSize |-> Unset, allowedDomains |-> Undef,
   includeSources |-> FALSE, userLocation |-> NoLocation]

FilesBatchParams ==
  [prompt : Prompts,
   pdfFiles : {Str(<<>>), Str(<<"file_", "a">>), Str(<<"a">>)},
   imageFiles : {Str(<<>>), Str(<<"https://", "a">>)},
   options : {NoFilesOptions, [NoFilesOptions EXCEPT !.quickMode = TRUE, !.temperature = "0.7"]},
   webSearch : {NoWebSearch}]

\* answers of /v1/responses
TextT == Str(<<"T">>)

MessageResponse ==
  Obj(<< <<<<"output">>,
           Arr(<<Obj(<< <<<<"type">>, Str(<<"message">>)>>,
                        <<<<"content">>,
                          Arr(<<Obj(<< <<<<"type">>, Str(<<"output_text">>)>>,
                                       <<<<"text">>, TextT>> >>)>>)>> >>)>>)>> >>)

LegacyResponse ==
  Obj(<< <<<<"choices">>,
           Arr(<<Obj(<< <<<<"message">>, Obj(<< <<<<"content">>, Str(<<"L">>)>> >>)>> >>)>>)>> >>)

\* thrown values
HttpError ==
  ErrorValue(Undef, Str(<<"Request failed with status code ", "400">>),
    Obj(<< <<<<"status">>, Num(<<"400">>)>>,
           <<<<"statusText">>, Str(<<"Bad Request">>)>>,
           <<<<"body">>, Obj(<< <<<<"error">>,
                                  Obj(<< <<<<"message">>, Str(<<"Invalid model">>)>> >>)>> >>)>> >>))

TimeoutError ==
  ErrorValue(Str(<<"ETIMEDOUT">>), Str(<<"timeout", " of 600000ms ", "exceeded">>), Undef)

NetworkError == ErrorValue(Str(<<"ECONNREFUSED">>), Str(<<"connect ECONNREFUSED">>), Undef)

ParameterError == ErrorValue(Undef, Str(<<"Could not get parameter">>), Undef)

UploadOutcomes == {Ok(FileU), Err(HttpError), Err(TimeoutError)}

DownloadOutcomes == {Ok(Undef), Err(NetworkError), Err(TimeoutError)}

ReadFileOutcomes == {Ok(Undef), Err(NetworkError)}

CompletionOutcomes == {Ok(MessageResponse), Err(HttpError), Err(TimeoutError)}

\* getNodeParameter('fileId', i) in AI Tool Mode, where the parameter is not
\* shown: the host throws, or returns the stored or default value
FileIdParameterOutcomes == {Err(ParameterError), Ok(Str(<<>>)), Ok(FileP)}

Fates(batch) == [1..Len(AllBinaries(batch, 1)) -> {"ok", "readFail", "uploadFail"}]

----------------------------------------------------------------------------
(* execute: the loop over the input items                                  *)

Init ==
  /\ pc = "loop"
  /\ variant \in {"operation", "files"}
  /\ operation \in IF variant = "operation"
                   THEN {"aiToolMode", "uploadAndProcess", "processFileId"} ELSE {"none"}
  /\ continueOnFail \in BOOLEAN
  /\ items \in ItemBatches
  /\ i = 1
  /\ returnData = <<>>
  /\ calls = <<>>
  /\ raised = Undef
  /\ IdleRow
  /\ IdleParse

\* the end of one iteration: the record is pushed (lines 921-925, 1686-1690),
\* or the catch block pushes the error record and continues, or throws
EndIteration(p, run, errorRecord) ==
  /\ params' = p
  /\ fileId' = run.fileId
  /\ uploadedId' = run.uploadedId
  /\ requestBody' = run.requestBody
  /\ response' = run.response
  /\ calls' = calls \o run.calls
  /\ IF run.ok THEN
       /\ outputData' = run.outputData
       /\ returnData' = Append(returnData, [item |-> i, json |-> run.outputData])
       /\ pc' = "next"
       /\ UNCHANGED raised
     ELSE IF continueOnFail THEN
       /\ outputData' = errorRecord
       /\ returnData' = Append(returnData, [item |-> i, json |-> errorRecord])
       /\ pc' = "next"
       /\ UNCHANGED raised
     ELSE
       /\ outputData' = NoKeys
       /\ raised' = errorRecord.error
       /\ pc' = "thrown"
       /\ UNCHANGED returnData
  /\ UNCHANGED <<i, batchVars, parseVars>>

AiToolIteration ==
  /\ pc = "loop" /\ variant = "operation" /\ operation = "aiToolMode" /\ i <= Len(items)
  /\ \E p \in AiToolParams, upload \in UploadOutcomes,
        fileIdParameter \in FileIdParameterOutcomes, completion \in CompletionOutcomes :
       \E run \in {AiToolRun(i, p, items, upload, fileIdParameter, completion)} :
         EndIteration(p, run, OperationErrorRecord(run.error))

UploadAndProcessIteration ==
  /\ pc = "loop" /\ variant = "operation" /\ operation = "uploadAndProcess" /\ i <= Len(items)
  /\ \E p \in UploadAndProcessParams, download \in DownloadOutcomes,
        readFile \in ReadFileOutcomes, upload \in UploadOutcomes,
        fate \in Fates(items), completion \in CompletionOutcomes :
       \E run \in {UploadAndProcessRun(i, p, items, download, readFile, upload, fate, completion)} :
         EndIteration(p, run, OperationErrorRecord(run.error))

ProcessFileIdIteration ==
  /\ pc = "loop" /\ variant = "operation" /\ operation = "processFileId" /\ i <= Len(items)
  /\ \E p \in ProcessFileIdParams, fate \in Fates(items), completion \in CompletionOutcomes :
       \E run \in {ProcessFileIdRun(i, p, items, fate, completion)} :
         EndIteration(p, run, OperationErrorRecord(run.error))

FilesIteration ==
  /\ pc = "loop" /\ variant = "files" /\ i <= Len(items)
  /\ \E p \in FilesBatchParams, completion \in CompletionOutcomes :
       \E run \in {FilesRun(i, p, completion)} :
         EndIteration(p, run, FilesErrorRecord(run.error, p.options))

\* a deviation from NextIteration: the loop goes on after the throw
NextIterationAfterThrow ==
  /\ pc \in {"next", "thrown"}
  /\ i' = i + 1
  /\ pc' = "loop"
  /\ params' = NoKeys /\ fileId' = Undef /\ uploadedId' = Undef
  /\ requestBody' = NoKeys /\ response' = Undef /\ outputData' = NoKeys
  /\ UNCHANGED <<returnData, calls, raised, batchVars, parseVars>>

\* i++ of the for loop; the locals of the iteration go out of scope
NextIteration ==
  /\ pc = "next"
  /\ i' = i + 1
  /\ pc' = "loop"
  /\ params' = NoKeys /\ fileId' = Undef /\ uploadedId' = Undef
  /\ requestBody' = NoKeys /\ response' = Undef /\ outputData' = NoKeys
  /\ UNCHANGED <<returnData, calls, raised, batchVars, parseVars>>

\* return [returnData], lines 969 and 1757
Return ==
  /\ pc = "loop" /\ i > Len(items)
  /\ pc' = "returned"
  /\ UNCHANGED <<loopVars, rowVars, batchVars, parseVars>>

Next ==
  \/ AiToolIteration
  \/ UploadAndProcessIteration
  \/ ProcessFileIdIteration
  \/ FilesIteration
  \/ NextIteration
  \/ Return

Spec == Init /\ [][Next]_vars


----------------------------------------------------------------------------
(* Request building alone: every combination of the options below          *)

OperationModels == {NoModel, Gpt41, Gpt5, Gpt5Mini, Gpt5Nano, O3, O3Mini, O3Pro, O4Mini}

FilesModels == {NoModel, Gpt41, Gpt41Mini, Gpt41Nano, Gpt5, Gpt5Mini, Gpt5Nano, O3, O3Mini}

Temperatures == {Unset, "0", "0.7"}

AdditionalFilesChoices ==
  { <<>>,
    <<[fileSource |-> "fileId", fileId |-> <<"file_", "x">>, url |-> <<>>],
      [fileSource |-> "url", fileId |-> <<>>, url |-> <<"https://", "x">>]>> }

RequestOptions ==
  { [NoOptions EXCEPT !.model = m, !.temperature = t, !.reasoningEffort = e,
                      !.reasoningSummary = r, !.verbosity = v, !.maxTokens = k,
                      !.additionalFiles = f, !.bulkFileList = b] :
      m \in OperationModels, t \in Temperatures, e \in {Unset, "high"},
      r \in {Unset, "none", "auto"}, v \in {Unset, "low"}, k \in {Unset, "4096"},
      f \in AdditionalFilesChoices, b \in {Undef, Str(<<"file_", "b", ",", "a">>)} }

\* values of the three bulk fields: unset, well formed, malformed, and values
\* an expression can produce that are not strings
BulkListChoices ==
  { Undef, Str(<<"file_", "b", ",", " ", "a", ",", "x", "https://", "u">>), Num(<<"5">>) }

BulkArrayChoices ==
  { Undef,
    Str(<<"[", "\"", "file_", "c", "\"", ",", "\"", "n", "\"", "]">>),
    Str(<<"[", "file_", "c">>),
    Str(<<"https://", "v", ",", "w">>),
    Arr(<<Str(<<" ", "file_", "d">>), Num(<<"5">>), Str(<<"https://", "e">>)>>) }

BulkJsonChoices ==
  { Undef,
    Str(<<"[", "\"", "file_", "f", "\"", ",", "\"", "https://", "g", "\"", "]">>),
    Str(<<"[", "\"", "file_", "f", "\"">>),
    Arr(<<Str(<<"file_", "h">>)>>) }

BulkOptions ==
  { [NoOptions EXCEPT !.bulkFileList = l, !.bulkFileArray = a, !.bulkFileJsonString = j,
                      !.additionalFiles = f] :
      l \in BulkListChoices, a \in BulkArrayChoices, j \in BulkJsonChoices,
      f \in AdditionalFilesChoices }

OperationRequests ==
  [op : {"uploadAndProcess", "processFileId"}, prompt : Prompts, fileId : {FileP},
   additionalOptions : RequestOptions \cup BulkOptions,
   binaryContents : {<<>>, <<InputFileId(FileU)>>}]
    \cup [op : {"aiToolMode"}, prompt : Prompts, fileId : {Str(<<>>), FileP},
          additionalOptions : {AiToolOptions}, binaryContents : {<<>>}]

FilesRequestOptions ==
  { [NoFilesOptions EXCEPT !.model = m, !.temperature = t, !.quickMode = q,
                           !.reasoningEffort = e, !.reasoningSummary = r, !.maxTokens = k] :
      m \in FilesModels, t \in Temperatures, q \in BOOLEAN, e \in {Unset, "high"},
      r \in {Unset, "none", "auto"}, k \in {Unset, "4096"} }

\* "1,2,...,n": n domains, told apart by their number
DomainList(n) ==
  Str([k \in 1..(2 * n - 1) |-> IF k % 2 = 1 THEN ToString((k + 1) \div 2) ELSE ","])

WebSearches ==
  { NoWebSearch,
    [NoWebSearch EXCEPT !.enabled = TRUE],
    [NoWebSearch EXCEPT !.enabled = TRUE, !.allowedDomains = Str(<<" ", ",", " ", ",">>)],
    [NoWebSearch EXCEPT !.enabled = TRUE,
                        !.allowedDomains = DomainList(MaxAllowedDomains - 1)],
    [NoWebSearch EXCEPT !.enabled = TRUE, !.allowedDomains = DomainList(MaxAllowedDomains)],
    [NoWebSearch EXCEPT !.enabled = TRUE,
                        !.allowedDomains = DomainList(MaxAllowedDomains + 2)],
    [enabled |-> TRUE, searchContextSize |-> "high",
     allowedDomains |-> Str(<<"a", ",", " ", "b">>), includeSources |-> TRUE,
     userLocation |-> [NoLocation EXCEPT !.country = "AU", !.city = "Newcastle"]] }

PdfInputs ==
  { Str(<<>>), Str(<<"a">>), Str(<<"file_", "a">>), Str(<<"https://", "a">>),
    Str(<<"(", "https://", "a", "'", ",", "https://", "d">>),
    Str(<<"file_", "a", ",", "https://", "b", ",", "c">>) }

ImageInputs ==
  { Str(<<>>), Str(<<"a">>), Str(<<"https://", "i">>), Str(<<"file_", "i", ",", "https://", "j">>) }

FilesRequests ==
  [prompt : Prompts, pdfFiles : PdfInputs, imageFiles : ImageInputs,
   options : FilesRequestOptions, webSearch : WebSearches]

InitRequest ==
  /\ pc = "build"
  /\ \/ variant = "operation" /\ params \in OperationRequests /\ operation = params.op
     \/ variant = "files" /\ params \in FilesRequests /\ operation = "none"
  /\ continueOnFail = FALSE /\ items = <<>>
  /\ i = 1 /\ returnData = <<>> /\ calls = <<>> /\ raised = Undef
  /\ fileId = Undef /\ uploadedId = Undef /\ requestBody = NoKeys
  /\ response = Undef /\ outputData = NoKeys
  /\ IdleParse

\* lines 631-868
BuildOperationRequest ==
  /\ pc = "build" /\ variant = "operation"
  /\ requestBody' = OperationRequestBody(params.op, params.prompt, params.fileId,
                                         params.additionalOptions, params.binaryContents)
  /\ fileId' = params.fileId
  /\ pc' = "built"
  /\ UNCHANGED <<params, uploadedId, response, outputData, batchVars, loopVars, parseVars>>

\* lines 1395-1556
BuildFilesRequest ==
  /\ pc = "build" /\ variant = "files"
  /\ requestBody' = FilesRequestBody(params.prompt, params.pdfFiles, params.imageFiles,
                                     params.options, params.webSearch)
  /\ pc' = "built"
  /\ UNCHANGED <<params, fileId, uploadedId, response, outputData, batchVars, loopVars, parseVars>>

NextRequest == BuildOperationRequest \/ BuildFilesRequest

SpecRequest == InitRequest /\ [][NextRequest]_vars

----------------------------------------------------------------------------
(* Response extraction alone: every response assembled from the parts below *)

\* one member of an object, or none when the value is undefined
Member(key, choice) == IF choice = Undef THEN <<>> ELSE << <<<<key>>, choice>> >>

OutputText(text) ==
  Obj(<< <<<<"type">>, Str(<<"output_text">>)>>, <<<<"text">>, Str(text)>> >>)

CitedOutputText(text) ==
  Obj(<< <<<<"type">>, Str(<<"output_text">>)>>, <<<<"text">>, Str(text)>>,
         <<<<"annotations">>,
           Arr(<<Obj(<< <<<<"type">>, Str(<<"url_citation">>)>>,
                        <<<<"url">>, Str(<<"https://", "c">>)>>,
                        <<<<"title">>, Str(<<"c">>)>>,
                        <<<<"start_index">>, Num(<<"0">>)>>,
                        <<<<"end_index">>, Num(<<"1">>)>> >>)>>)>> >>)

Message(content) ==
  Obj(<< <<<<"type">>, Str(<<"message">>)>>, <<<<"content">>, Arr(content)>> >>)

ReasoningEntry == Obj(<< <<<<"type">>, Str(<<"reasoning">>)>> >>)

SearchCall ==
  Obj(<< <<<<"type">>, Str(<<"web_search_call">>)>>, <<<<"id">>, Str(<<"ws_1">>)>>,
         <<<<"status">>, Str(<<"completed">>)>> >>)

OutputLists ==
  { Undef,
    Arr(<<>>),
    Arr(<<ReasoningEntry>>),
    Arr(<<Message(<<OutputText(<<>>)>>)>>),
    Arr(<<Message(<<OutputText(<<"T">>)>>)>>),
    Arr(<<ReasoningEntry, Message(<<OutputText(<<"T">>)>>)>>),
    Arr(<<SearchCall, Message(<<CitedOutputText(<<"T">>)>>)>>),
    Arr(<<Message(<<CitedOutputText(<<"T">>)>>), Message(<<OutputText(<<"U">>)>>)>>) }

LegacyChoices(content) ==
  Arr(<<Obj(<< <<<<"message">>, Obj(<< <<<<"content">>, Str(content)>> >>)>> >>)>>)

ExtractResponses ==
  { Obj(Member("output_text", flat) \o Member("output", list) \o Member("choices", legacy)
          \o Member("model", named)) :
      flat \in {Undef, Str(<<>>), Str(<<"F">>)},
      list \in OutputLists,
      legacy \in {Undef, Arr(<<>>), LegacyChoices(<<>>), LegacyChoices(<<"L">>)},
      named \in {Undef, Str(Gpt5Mini)} }

InitExtract ==
  /\ pc = "extract"
  /\ variant \in {"operation", "files"}
  /\ operation = (IF variant = "operation" THEN "aiToolMode" ELSE "none")
  /\ response \in ExtractResponses
  /\ continueOnFail = FALSE /\ items = <<>>
  /\ i = 1 /\ returnData = <<>> /\ calls = <<>> /\ raised = Undef
  /\ params = NoKeys /\ fileId = Undef /\ uploadedId = Undef
  /\ requestBody = NoKeys /\ outputData = NoKeys
  /\ IdleParse

\* lines 1577-1684
ExtractFiles ==
  /\ pc = "extract" /\ variant = "files"
  /\ outputData' = FilesOutput(response, Gpt5, <<>>, <<>>, NoFilesOptions, NoWebSearch)
  /\ pc' = "extracted"
  /\ UNCHANGED <<params, fileId, uploadedId, requestBody, response,
                 batchVars, loopVars, parseVars>>

\* lines 888-911
ExtractAiTool ==
  /\ pc = "extract" /\ variant = "operation"
  /\ outputData' = AiToolOutput(response, fileId, Gpt5)
  /\ pc' = "extracted"
  /\ UNCHANGED <<params, fileId, uploadedId, requestBody, response,
                 batchVars, loopVars, parseVars>>

NextExtract == ExtractFiles \/ ExtractAiTool

SpecExtract == InitExtract /\ [][NextExtract]_vars

----------------------------------------------------------------------------
(* Claims about the batch                                                  *)

\* the positions in calls of the requests row k sent to path
RowCalls(k, path) == {c \in 1..Len(calls) : calls[c].row = k /\ calls[c].path = path}

\* row k got an answer from /v1/responses, which is where its try block ends
RowSucceeded(k) == \E c \in RowCalls(k, "/v1/responses") : calls[c].ok

IsErrorRecord(json) == Has(json, "error") /\ Has(json, "details")

\* C4: with continue-on-failure on, execute returns one record per input row,
\* record k paired with row k, a result record when row k succeeded and an
\* error record with error and details when it failed.
C4_OneRecordPerRow ==
  (continueOnFail /\ pc = "returned") =>
    /\ Len(returnData) = Len(items)
    /\ \A k \in 1..Len(items) :
         /\ returnData[k].item = k
         /\ IF RowSucceeded(k) THEN ~Has(returnData[k].json, "error")
            ELSE IsErrorRecord(returnData[k].json)

C4_Witness ==
  /\ continueOnFail /\ pc = "returned" /\ Len(items) = 2
  /\ ~RowSucceeded(1) /\ RowSucceeded(2)
  /\ IsErrorRecord(returnData[1].json) /\ ~Has(returnData[2].json, "error")

\* C5: with continue-on-failure off, the first failing row makes execute
\* raise; every earlier row succeeded and has its record, no request and no
\* record belongs to a later row, and nothing happens after the throw.
C5_AbortOnFirstFailure ==
  /\ [](~continueOnFail =>
          /\ pc = "next" => RowSucceeded(i)
          /\ pc = "returned" => \A k \in 1..Len(items) : RowSucceeded(k)
          /\ pc = "thrown" =>
               /\ raised /= Undef
               /\ ~RowSucceeded(i)
               /\ \A k \in 1..(i - 1) : RowSucceeded(k)
               /\ \A c \in 1..Len(calls) : calls[c].row <= i
               /\ Len(returnData) = i - 1
               /\ \A k \in 1..Len(returnData) : returnData[k].item = k)
  /\ [][pc = "thrown" => FALSE]_vars

C5_Witness ==
  /\ ~continueOnFail /\ pc = "thrown" /\ i = 1 /\ Len(items) = 2
  /\ calls /= <<>> /\ returnData = <<>>

ProcessAll(p) == Has(p, "additionalOptions") /\ p.additionalOptions.processAllBinaryItems

\* C6 as stated: no row issues more than one POST to /v1/files, and it comes
\* before the row's single POST to /v1/responses.
C6_AtMostOneUpload ==
  \A k \in 1..Len(items) :
    /\ Cardinality(RowCalls(k, "/v1/files")) <= 1
    /\ Cardinality(RowCalls(k, "/v1/responses")) <= 1
    /\ \A u \in RowCalls(k, "/v1/files"), r \in RowCalls(k, "/v1/responses") : u < r

\* C6, amended: every POST to /v1/files of a row comes before the row's single
\* POST to /v1/responses; a row issues at most one upload when Process All
\* Binary Items is off, and with it on at most one more for each binary
\* property of every input item.
C6_UploadsBeforeCompletion ==
  /\ \A k \in 1..Len(items) :
       /\ Cardinality(RowCalls(k, "/v1/responses")) <= 1
       /\ \A u \in RowCalls(k, "/v1/files"), r \in RowCalls(k, "/v1/responses") : u < r
       /\ Cardinality(RowCalls(k, "/v1/files")) <= 1 + Len(AllBinaries(items, 1))
  /\ (pc \in {"next", "thrown"} /\ ~ProcessAll(params)) =>
       Cardinality(RowCalls(i, "/v1/files")) <= 1

C6_Witness ==
  /\ pc = "next" /\ ProcessAll(params)
  /\ Cardinality(RowCalls(i, "/v1/files")) = 3
  /\ Cardinality(RowCalls(i, "/v1/responses")) = 1

\* the content of the user turn of a request body holds an input_file segment
\* with this file_id
CarriesFileId(body, id) ==
  /\ Has(body, "input") /\ body.input.t = "arr"
  /\ \E k \in 1..Len(body.input.a[1].content) :
       LET segment == body.input.a[1].content[k] IN
       segment.type = "input_file" /\ Has(segment, "file_id") /\ segment.file_id = id

\* C7: in AI Tool Mode with Include File on, when the upload returned F and the
\* completion request was sent, the request carries an input_file segment with
\* file_id = F and the row's output record has fileId = F.
C7_UploadedIdReachesRequest ==
  (/\ variant = "operation" /\ operation = "aiToolMode" /\ pc = "next"
   /\ params.aiToolIncludeFile /\ uploadedId /= Undef /\ RowSucceeded(i)) =>
    /\ CarriesFileId(requestBody, uploadedId)
    /\ outputData.fileId = uploadedId


\* the file the row attaches in the operation-based execute: the upload of
\* Upload & Process and of AI Tool Mode with Include File, the given identifier
\* of Process with File ID; Undef when there is none
AttachedFile ==
  IF operation = "processFileId" THEN params.fileId
  ELSE IF operation = "aiToolMode" /\ ~params.aiToolIncludeFile THEN Undef
  ELSE uploadedId

RowPrompt == IF operation = "aiToolMode" THEN params.aiToolPrompt ELSE params.prompt

IsReference(token) ==
  StartsWith(token, "file_") \/ Includes(token, "http://") \/ Includes(token, "https://")

\* the segment of the k-th token that is a reference
ReferenceSegment(tokenList, k, type, urlKey) ==
  LET token == SelectSeq(tokenList, LAMBDA t : IsReference(t))[k] IN
  IF StartsWith(token, "file_") THEN [type |-> type, file_id |-> Str(token)]
  ELSE [type |-> type] @@ [key \in {urlKey} |-> Str(token)]

ReferenceSegments(tokenList, type, urlKey) ==
  [k \in 1..Len(SelectSeq(tokenList, LAMBDA t : IsReference(t))) |->
     ReferenceSegment(tokenList, k, type, urlKey)]

IsOneUserTurn(inputValue) ==
  inputValue.t = "arr" /\ Len(inputValue.a) = 1 /\ inputValue.a[1].role = "user"

\* C2: a row that attaches no file sends the prompt string as input; a row that
\* attaches a file sends one user turn whose content starts with the prompt
\* segment, followed by the file segments in order (PDF references, then image
\* references, in the prompt/pdfFiles/imageFiles execute).
C2_InputForm ==
  (pc = "next" /\ RowSucceeded(i)) =>
    IF variant = "files" THEN
      LET pdfIds == ParseFileInput(params.pdfFiles)
          images == ParseFileInput(params.imageFiles)
      IN IF Len(pdfIds) + Len(images) = 0 THEN requestBody.input = Str(params.prompt)
         ELSE /\ IsOneUserTurn(requestBody.input)
              /\ requestBody.input.a[1].content =
                   <<InputText(params.prompt)>>
                     \o ReferenceSegments(pdfIds, "input_file", "file_url")
                     \o ReferenceSegments(images, "input_image", "image_url")
    ELSE
      IF AttachedFile = Undef THEN requestBody.input = Str(RowPrompt)
      ELSE /\ IsOneUserTurn(requestBody.input)
           /\ Len(requestBody.input.a[1].content) >= 2
           /\ requestBody.input.a[1].content[1] = InputText(RowPrompt)
           /\ requestBody.input.a[1].content[2] = InputFileId(AttachedFile)

----------------------------------------------------------------------------
(* Claims about request building                                           *)

ReasoningFamily == {Gpt5, Gpt5Mini, Gpt5Nano, O3, O3Mini, O3Pro, O4Mini}

\* C1: a request for a model of the reasoning family has no temperature key,
\* whatever temperature was supplied, in both execute functions.
C1_NoTemperatureForReasoningModels ==
  (pc = "built" /\ requestBody.model \in ReasoningFamily) => ~Has(requestBody, "temperature")

EffortSet == TruthyOption(params.additionalOptions.reasoningEffort)

SummarySet ==
  /\ TruthyOption(params.additionalOptions.reasoningSummary)
  /\ params.additionalOptions.reasoningSummary /= "none"

\* C3: in the operation-based execute a gpt-5 family request carries effort and
\* summary together under reasoning and never a flat reasoning_effort; an
\* o-series request carries the effort as the flat reasoning_effort, the
\* summary as reasoning.summary, and never reasoning.effort.
C3_ReasoningPlacement ==
  (pc = "built" /\ variant = "operation") =>
    /\ requestBody.model \in {Gpt5, Gpt5Mini, Gpt5Nano} =>
         /\ ~Has(requestBody, "reasoning_effort")
         /\ Has(requestBody, "reasoning") <=> (EffortSet \/ SummarySet)
         /\ Has(requestBody, "reasoning") =>
              /\ Has(requestBody.reasoning, "effort") <=> EffortSet
              /\ Has(requestBody.reasoning, "summary") <=> SummarySet
              /\ EffortSet =>
                   requestBody.reasoning.effort = params.additionalOptions.reasoningEffort
              /\ SummarySet =>
                   requestBody.reasoning.summary = params.additionalOptions.reasoningSummary
    /\ requestBody.model \in {O3, O3Mini, O3Pro, O4Mini} =>
         /\ Has(requestBody, "reasoning_effort") <=> EffortSet
         /\ EffortSet =>
              requestBody.reasoning_effort = params.additionalOptions.reasoningEffort
         /\ Has(requestBody, "reasoning") <=> SummarySet
         /\ SummarySet =>
              requestBody.reasoning = [summary |-> params.additionalOptions.reasoningSummary]

C3_Witness ==
  /\ pc = "built" /\ variant = "operation" /\ requestBody.model = O3Mini
  /\ EffortSet /\ SummarySet
  /\ Has(requestBody, "reasoning_effort") /\ Has(requestBody, "reasoning")


\* the web_search tool of a request that has one
WebSearchTool == requestBody.tools[1]

\* C12: with web search enabled, filters.allowed_domains holds the first 20
\* (or fewer) trimmed non-empty comma-separated domains of allowedDomains, in
\* input order, and there is no filters key when no such domain is supplied.
C12_AllowedDomainsCapped ==
  (pc = "built" /\ variant = "files" /\ params.webSearch.enabled) =>
    LET supplied == IF params.webSearch.allowedDomains.t = "str"
                    THEN CommaTokens(params.webSearch.allowedDomains.s) ELSE <<>>
    IN /\ Has(requestBody, "tools")
       /\ IF supplied = <<>> THEN ~Has(WebSearchTool, "filters")
          ELSE /\ Has(WebSearchTool, "filters")
               /\ Len(WebSearchTool.filters.allowed_domains) <= 20
               /\ Len(WebSearchTool.filters.allowed_domains) =
                    (IF Len(supplied) <= 20 THEN Len(supplied) ELSE 20)
               /\ \A k \in 1..Len(WebSearchTool.filters.allowed_domains) :
                    WebSearchTool.filters.allowed_domains[k] = supplied[k]

C12_Witness ==
  /\ pc = "built" /\ variant = "files" /\ params.webSearch.enabled
  /\ params.webSearch.allowedDomains.t = "str"
  /\ Len(CommaTokens(params.webSearch.allowedDomains.s)) = 22
  /\ Has(WebSearchTool, "filters")
  /\ Len(WebSearchTool.filters.allowed_domains) = 20
  /\ WebSearchTool.filters.allowed_domains[20] = <<"20">>

----------------------------------------------------------------------------
(* Claims about response extraction                                        *)

\* the text the scan of the output list finds; empty when there is no list
ScannedText(resp) ==
  IF Get(resp, "output").t = "arr"
  THEN ScanOutputs(Get(resp, "output").a,
                   [textContent |-> EmptyString, citations |-> <<>>,
                    webSearchResults |-> NoSearchResults, sources |-> <<>>]).textContent
  ELSE EmptyString

FirstNonEmptySource(resp) ==
  IF Truthy(Get(resp, "output_text")) THEN Get(resp, "output_text")
  ELSE IF Truthy(ScannedText(resp)) THEN ScannedText(resp)
  ELSE IF Truthy(LegacyContent(resp)) THEN LegacyContent(resp)
  ELSE EmptyString

\* C8: in the prompt/pdfFiles/imageFiles execute the record's text is the first
\* non-empty of output_text, the text scanned from the output list, and the
\* legacy choices[0].message.content, else the empty string; a source that is
\* present without text falls through to the next.
C8_FirstNonEmptySourceWins ==
  (pc = "extracted" /\ variant = "files") => outputData.text = FirstNonEmptySource(response)

\* the contents a legacy response carries
LegacyTexts == {<<"L">>}

\* a response with neither output_text nor an output list
NoOutputMembers == Get(response, "output_text") = Undef /\ Get(response, "output") = Undef

\* C13: for a response with only the legacy shape choices[0].message.content = c,
\* c non-empty, no output_text and no output list, the record's text is c, in
\* the prompt/pdfFiles/imageFiles execute and in AI Tool Mode.
C13_LegacyShapeFallback ==
  \A c \in LegacyTexts :
    (pc = "extracted" /\ NoOutputMembers /\ Get(response, "choices") = LegacyChoices(c))
      => outputData.text = Str(c)

C13_Witness ==
  /\ pc = "extracted" /\ variant = "operation" /\ NoOutputMembers
  /\ Get(response, "choices") = LegacyChoices(<<"L">>)
  /\ outputData.text = Str(<<"L">>)

C13_WitnessFiles ==
  /\ pc = "extracted" /\ variant = "files" /\ NoOutputMembers
  /\ Get(response, "choices") = LegacyChoices(<<"L">>)
  /\ outputData.text = Str(<<"L">>)

\* response.output is absent or an empty list
NoOutputList == Get(response, "output") \in {Undef, Arr(<<>>)}

\* response.choices is absent, empty, or its first message has an empty content
NoLegacyContent == Get(response, "choices") \in {Undef, Arr(<<>>), LegacyChoices(<<>>)}

\* the record is a result record with an empty text
IsEmptyTextRecord == Has(outputData, "text") /\ outputData.text = Str(<<>>) /\ ~Has(outputData, "error")

\* C14 as stated: for every response whose output list is absent or empty and
\* that has no legacy content, extraction finishes with a result record whose
\* text is the empty string.
C14_AsStated ==
  /\ (pc = "extract" /\ NoOutputList /\ NoLegacyContent) => ENABLED NextExtract
  /\ (pc = "extracted" /\ NoOutputList /\ NoLegacyContent) => IsEmptyTextRecord

\* C14 amended: the same, for a response that also has no non-empty top-level
\* output_text.
C14_EmptyTextWhenNoSource ==
  /\ (pc = "extract" /\ NoOutputList /\ NoLegacyContent) => ENABLED NextExtract
  /\ (pc = "extracted" /\ NoOutputList /\ NoLegacyContent
        /\ Get(response, "output_text") \in {Undef, Str(<<>>)}) => IsEmptyTextRecord

C14_Witness ==
  /\ pc = "extracted" /\ variant = "files" /\ IsEmptyTextRecord
  /\ Get(response, "output") = Arr(<<>>)
  /\ Get(response, "choices") = LegacyChoices(<<>>)
  /\ Get(response, "output_text") = Str(<<>>)

----------------------------------------------------------------------------
(* Claims about the text and quick-mode fields of the request              *)

Gpt5Family == {Gpt5, Gpt5Mini, Gpt5Nano}

Verbosities == {"low", "medium", "high"}

\* C15: in the operation-based execute the request carries text.verbosity
\* exactly when a verbosity is configured and the model is of the gpt-5
\* family, no text key for any other model, and in AI Tool Mode the request
\* always carries model gpt-5, reasoning.effort medium and text.verbosity medium.
C15_VerbosityOnlyForGpt5 ==
  (pc = "built" /\ variant = "operation") =>
    /\ Has(requestBody, "text") <=>
         (params.additionalOptions.verbosity \in Verbosities /\ requestBody.model \in Gpt5Family)
    /\ Has(requestBody, "text") =>
         requestBody.text = [verbosity |-> params.additionalOptions.verbosity]
    /\ requestBody.model \notin Gpt5Family => ~Has(requestBody, "text")
    /\ operation = "aiToolMode" =>
         /\ requestBody.model = Gpt5
         /\ Has(requestBody, "reasoning") /\ requestBody.reasoning.effort = "medium"
         /\ Has(requestBody, "text") /\ requestBody.text.verbosity = "medium"

C15_Witness ==
  /\ pc = "built" /\ variant = "operation" /\ operation = "processFileId"
  /\ params.additionalOptions.verbosity = "low"
  /\ requestBody.model = O3
  /\ ~Has(requestBody, "text")

C15_WitnessAiTool ==
  /\ pc = "built" /\ operation = "aiToolMode"
  /\ requestBody.text.verbosity = "medium" /\ requestBody.reasoning.effort = "medium"

----------------------------------------------------------------------------
(* Claims about the scan of the output list                                *)

\* the positions of the output_text segments with a text in a content list
TextSegments(entry) ==
  IF Get(entry, "content").t = "arr"
  THEN { k \in 1..Len(Get(entry, "content").a) :
           /\ Get(Get(entry, "content").a[k], "type") = Str(<<"output_text">>)
           /\ Truthy(Get(Get(entry, "content").a[k], "text")) }
  ELSE {}

\* the positions of the entries of response.output that hold such a segment
TextEntries ==
  IF Get(response, "output").t = "arr"
  THEN { k \in 1..Len(Get(response, "output").a) :
           TextSegments(Get(response, "output").a[k]) /= {} }
  ELSE {}

Least(S) == CHOOSE k \in S : \A m \in S : k <= m

\* the first output_text segment of the first entry that holds one
FirstTextSegment ==
  LET entry == Get(response, "output").a[Least(TextEntries)]
  IN Get(entry, "content").a[Least(TextSegments(entry))]

\* C16: in the prompt/pdfFiles/imageFiles execute, when the output list holds
\* several entries with an output_text segment, the record's text is the text
\* of the first such entry, and no later entry changes the text.
C16_FirstOutputTextEntryWins ==
  (pc = "extracted" /\ variant = "files" /\ ~Truthy(Get(response, "output_text"))
     /\ Cardinality(TextEntries) >= 2)
    => outputData.text = Get(FirstTextSegment, "text")

\* the texts of the output_text segments held by the message entries of response.output
MessageTexts ==
  UNION { { Get(Get(Get(response, "output").a[k], "content").a[m], "text") :
              m \in TextSegments(Get(response, "output").a[k]) } :
          k \in { e \in TextEntries :
                    Get(Get(response, "output").a[e], "type") = Str(<<"message">>) } }

\* C17: in AI Tool Mode, for every response whose output list contains a
\* message entry holding an output_text segment with a non-empty text, at
\* whatever position in the list, the record's text is that segment's text.
C17_AiToolTextAtAnyPosition ==
  (pc = "extracted" /\ variant = "operation" /\ MessageTexts /= {})
    => outputData.text \in MessageTexts

----------------------------------------------------------------------------
(* Claims about the tokens of the file-reference inputs                    *)

\* what a token is: a file identifier, a URL, or neither
TokenClass(token) ==
  IF StartsWith(token, "file_") THEN "id"
  ELSE IF Includes(token, "http://") \/ Includes(token, "https://") THEN "url"
  ELSE "none"

\* what a request segment is
SegmentClass(segment) ==
  IF "file_id" \in DOMAIN segment THEN "id"
  ELSE IF {"image", "file_url", "image_url"} \cap DOMAIN segment /= {} THEN "url"
  ELSE "none"

RECURSIVE Classes(_)
Classes(tokenList) ==
  IF tokenList = <<>> THEN <<>>
  ELSE (IF TokenClass(Head(tokenList)) = "none" THEN <<>> ELSE <<TokenClass(Head(tokenList))>>)
         \o Classes(Tail(tokenList))

\* the elements of a list value as trimmed strings
ItemTokens(v) == IF v.t = "arr" THEN [k \in 1..Len(v.a) |-> Trim(ToStr(v.a[k]))] ELSE <<>>

\* the tokens of bulkFileList: the comma-separated tokens of a string
ListTokens(v) == IF v.t = "str" THEN CommaTokens(v.s) ELSE <<>>

\* the tokens of bulkFileArray: the elements of a list or of a string that
\* is a JSON array, and the whole of a string that is not JSON
ArrayTokens(v) ==
  IF v.t = "arr" THEN ItemTokens(v)
  ELSE IF v.t = "str" /\ Trim(v.s) /= <<>> THEN
    (IF JsonParse(v.s).ok THEN ItemTokens(JsonParse(v.s).v) ELSE <<Trim(v.s)>>)
  ELSE <<>>

\* the tokens of bulkFileJsonString: the elements of a string that is a JSON array
JsonTokens(v) ==
  IF v.t = "str" /\ JsonParse(v.s).ok THEN ItemTokens(JsonParse(v.s).v) ELSE <<>>

BulkTokens ==
  ListTokens(params.additionalOptions.bulkFileList)
    \o ArrayTokens(params.additionalOptions.bulkFileArray)
    \o JsonTokens(params.additionalOptions.bulkFileJsonString)

\* the segments of the request after the prompt and the row's own file, the
\* Additional Files and the binary uploads left out
BulkContentSent ==
  LET content == requestBody.input.a[1].content
      first == 3 + Len(params.additionalOptions.additionalFiles)
      last == Len(content) - Len(params.binaryContents)
  IN SubSeq(content, first, last)

BulkSegmentsSent == [k \in 1..Len(BulkContentSent) |-> SegmentClass(BulkContentSent[k])]

\* the segments of the other execute after the prompt
FileContentSent ==
  IF requestBody.input.t = "arr" THEN Tail(requestBody.input.a[1].content) ELSE <<>>

FileSegmentsSent == [k \in 1..Len(FileContentSent) |-> SegmentClass(FileContentSent[k])]

\* C18: for every value of bulkFileList, bulkFileArray, bulkFileJsonString,
\* pdfFiles and imageFiles the request is built, with one file-identifier
\* segment for each token that starts with file_, one URL segment for each
\* token that contains http:// or https://, and no segment for any other token.
C18_EveryTokenClassified ==
  /\ pc = "built" => Has(requestBody, "model") /\ Has(requestBody, "input")
  /\ (pc = "built" /\ variant = "operation" /\ operation /= "aiToolMode")
       => BulkSegmentsSent = Classes(BulkTokens)
  /\ (pc = "built" /\ variant = "files")
       => FileSegmentsSent = Classes(ParseFileInput(params.pdfFiles))
                               \o Classes(ParseFileInput(params.imageFiles))

\* a character a URL can hold: not white space, not ] } " '
IsUrlSafe(c) == ~IsSpace(c) /\ c \notin {"]", "}", "\"", "'"}

\* the contiguous URL-safe substring of a token from its first http:// or https://
UrlOfToken(token) ==
  LET start == Least({p \in 1..Len(token) : token[p] \in {"http://", "https://"}})
      stop == Least({q \in start..Len(token) : q = Len(token) \/ ~IsUrlSafe(token[q + 1])})
  IN SubSeq(token, start, stop)

\* the tokens that produce a segment
Classified(tokenList) == SelectSeq(tokenList, LAMBDA token : TokenClass(token) /= "none")

\* the URL a URL segment carries
UrlSent(segment) ==
  IF "image" \in DOMAIN segment THEN segment.image.url
  ELSE IF "file_url" \in DOMAIN segment THEN segment.file_url.s
  ELSE segment.image_url.s

\* every URL segment carries the URL of its token
UrlsExtracted(tokenList, content) ==
  Len(content) = Len(Classified(tokenList)) =>
    \A k \in 1..Len(content) :
      TokenClass(Classified(tokenList)[k]) = "url"
        => UrlSent(content[k]) = UrlOfToken(Classified(tokenList)[k])

\* C19: for every token classified as a URL reference, the URL of its request
\* segment is the contiguous URL-safe substring of the token that starts at
\* its first http:// or https://, for bulk file tokens in the operation-based
\* execute and for pdfFiles and imageFiles tokens in the other execute.
C19_UrlExtractedFromToken ==
  /\ (pc = "built" /\ variant = "operation" /\ operation /= "aiToolMode")
       => UrlsExtracted(BulkTokens, BulkContentSent)
  /\ (pc = "built" /\ variant = "files")
       => UrlsExtracted(ParseFileInput(params.pdfFiles) \o ParseFileInput(params.imageFiles),
                        FileContentSent)

----------------------------------------------------------------------------
(* Claims about quick mode                                                 *)

\* the faster sibling of a model, and the models that have none
FasterSibling(model) ==
  CASE model = Gpt5 -> Gpt5Mini
    [] model = Gpt41 -> Gpt41Mini
    [] model = O3 -> O3Mini
    [] OTHER -> model

ConfiguredModel == IF params.options.model = NoModel THEN Gpt5 ELSE params.options.model

\* the models the reasoning rule of this execute applies to
FilesReasoningFamily == {Gpt5, Gpt5Mini, Gpt5Nano, Gpt41, Gpt41Mini, Gpt41Nano}

\* C20: with quick mode on the request's model is the substituted one (gpt-5
\* to gpt-5-mini, gpt-4.1 to gpt-4.1-mini, o3 to o3-mini) and never gpt-5,
\* gpt-4.1 or o3, the reasoning rule sees the substituted model and the effort
\* low, and with web search enabled the tool's search_context_size is medium
\* whatever size was configured.
C20_QuickModeOverridesFirst ==
  (pc = "built" /\ variant = "files" /\ params.options.quickMode) =>
    /\ requestBody.model = FasterSibling(ConfiguredModel)
    /\ requestBody.model \notin {Gpt5, Gpt41, O3}
    /\ Has(requestBody, "reasoning") <=> FasterSibling(ConfiguredModel) \in FilesReasoningFamily
    /\ Has(requestBody, "reasoning") => requestBody.reasoning.effort = "low"
    /\ params.webSearch.enabled =>
         /\ Has(requestBody, "tools")
         /\ requestBody.tools[1].search_context_size = "medium"

C20_Witness ==
  /\ pc = "built" /\ variant = "files" /\ params.options.quickMode
  /\ params.options.model = O3 /\ requestBody.model = O3Mini
  /\ params.options.reasoningEffort = "high" /\ ~Has(requestBody, "reasoning")
  /\ params.webSearch.enabled /\ params.webSearch.searchContextSize = "high"
  /\ requestBody.tools[1].search_context_size = "medium"

\* the reasoning effort a request carries, nested or flat; Unset when none
EffortSent ==
  IF Has(requestBody, "reasoning") /\ "effort" \in DOMAIN requestBody.reasoning
    THEN requestBody.reasoning.effort
  ELSE IF Has(requestBody, "reasoning_effort") THEN requestBody.reasoning_effort
  ELSE Unset

\* C21: with quick mode on, for every model of the node's model list and
\* every configured reasoning effort, the request carries reasoning effort
\* low: the effort is neither omitted nor any other value.
C21_QuickModeEffortLow ==
  (pc = "built" /\ variant = "files" /\ params.options.quickMode) => EffortSent = "low"

\* the request the same row builds when reasoningSummary is not supplied
WithoutSummary ==
  IF variant = "operation"
  THEN OperationRequestBody(params.op, params.prompt, params.fileId,
                            [params.additionalOptions EXCEPT !.reasoningSummary = Unset],
                            params.binaryContents)
  ELSE FilesRequestBody(params.prompt, params.pdfFiles, params.imageFiles,
                        [params.options EXCEPT !.reasoningSummary = Unset], params.webSearch)

SummaryConfigured ==
  IF variant = "operation" THEN params.additionalOptions.reasoningSummary
  ELSE params.options.reasoningSummary

\* C22: for every model and every effort setting, the request built with
\* reasoningSummary = none is the request built with reasoningSummary not
\* supplied, and a reasoning key is sent only when it holds at least one of
\* effort and summary, in both execute functions.
C22_SummaryNoneIsAbsent ==
  pc = "built" =>
    /\ SummaryConfigured = "none" => requestBody = WithoutSummary
    /\ Has(requestBody, "reasoning") => DOMAIN requestBody.reasoning /= {}

----------------------------------------------------------------------------
(* The catch blocks alone: every thrown value assembled from the parts below *)

ErrorBodies ==
  { Undef,
    Obj(<<>>),
    Obj(<< <<<<"error">>, Obj(<< <<<<"message">>, Str(<<>>)>> >>)>> >>),
    Obj(<< <<<<"error">>, Obj(<< <<<<"message">>, Str(<<"Invalid model">>)>> >>)>> >>) }

ErrorResponses ==
  {Undef} \cup
  { Obj(<< <<<<"status">>, Num(<<status>>)>> >>
          \o Member("statusText", statusText) \o Member("body", body)) :
      status \in {"400", "504"},
      statusText \in {Undef, Str(<<>>), Str(<<"Bad Request">>)},
      body \in ErrorBodies }

ErrorMessages ==
  { Undef, Str(<<"Request failed with status code ", "400">>),
    Str(<<"timeout", " of 600000ms ", "exceeded">>), Str(<<"socket hang up">>) }

ThrownValues ==
  { ErrorValue(code, message, resp) :
      code \in {Undef, Str(<<"ETIMEDOUT">>)}, message \in ErrorMessages, resp \in ErrorResponses }

InitCatch ==
  /\ pc = "catch"
  /\ variant \in {"operation", "files"}
  /\ operation = "none"
  /\ continueOnFail \in BOOLEAN
  /\ raised \in ThrownValues
  /\ params = (IF variant = "files" THEN [options |-> NoFilesOptions] ELSE NoKeys)
  /\ items = <<>> /\ i = 1 /\ returnData = <<>> /\ calls = <<>>
  /\ fileId = Undef /\ uploadedId = Undef /\ requestBody = NoKeys
  /\ response = Undef /\ outputData = NoKeys
  /\ IdleParse

\* lines 945-965, 1734-1753: the error record is pushed, or a
\* NodeOperationError with the message and the description is thrown
EndCatch(errorRecord) ==
  /\ IF continueOnFail
     THEN /\ outputData' = errorRecord
          /\ returnData' = Append(returnData, [item |-> i, json |-> errorRecord])
          /\ pc' = "caught"
     ELSE /\ outputData' = [message |-> errorRecord.error,
                            description |-> Get(Get(errorRecord.details, "error"), "message")]
          /\ UNCHANGED returnData
          /\ pc' = "thrown"
  /\ UNCHANGED <<i, calls, raised, params, fileId, uploadedId, requestBody, response,
                 batchVars, parseVars>>

\* lines 927-966
CatchOperation ==
  /\ pc = "catch" /\ variant = "operation"
  /\ EndCatch(OperationErrorRecord(raised))

\* lines 1692-1754
CatchFiles ==
  /\ pc = "catch" /\ variant = "files"
  /\ EndCatch(FilesErrorRecord(raised, params.options))

NextCatch == CatchOperation \/ CatchFiles

SpecCatch == InitCatch /\ [][NextCatch]_vars

----------------------------------------------------------------------------
(* Claims about the catch blocks                                           *)

\* the message the row reports: in its error record, or in the error raised
ReportedMessage == IF pc = "caught" THEN outputData.error ELSE outputData.message

\* response.body.error.message, else the status text, else HTTP <status>
ProviderMessage(resp) ==
  LET message == Get(Get(Get(resp, "body"), "error"), "message")
      statusText == Get(resp, "statusText")
  IN IF message.t = "str" /\ message.s /= <<>> THEN message
     ELSE IF statusText.t = "str" /\ statusText.s /= <<>> THEN statusText
     ELSE Str(<<"HTTP ", Get(resp, "status").d[1]>>)

\* C23: for every failed call whose error carries an HTTP response, the
\* message reported for the row is the provider's response.body.error.message
\* when present and non-empty, else the status text, else HTTP <status>, in
\* both execute functions, whatever the transport error's own message.
C23_ProviderMessageReported ==
  (pc \in {"caught", "thrown"} /\ raised.response /= Undef)
    => ReportedMessage = ProviderMessage(raised.response)

----------------------------------------------------------------------------
(* Claims about the Process All Binary Items loop                          *)

\* the positions in the log of the uploads of row k, in order
RowUploads(k) == SelectSeq([c \in 1..Len(calls) |-> c],
                           LAMBDA c : calls[c].row = k /\ calls[c].path = "/v1/files")

\* the row's own file is there: given by parameter, or uploaded first
OwnFileReady(k) ==
  \/ operation = "processFileId"
  \/ operation = "uploadAndProcess" /\ RowUploads(k) /= <<>> /\ calls[RowUploads(k)[1]].ok

\* the uploads of the Process All Binary Items loop of row k
LoopUploads(k) ==
  IF operation = "uploadAndProcess" /\ RowUploads(k) /= <<>> THEN Tail(RowUploads(k))
  ELSE RowUploads(k)

\* the ids the provider gives the binary properties of the batch, in loop order
BinaryIds == [k \in 1..Len(AllBinaries(items, 1)) |-> BinaryUploadId(AllBinaries(items, 1)[k])]

\* the file_ids of the segments sent for the loop's uploads
BinarySegmentIds ==
  LET content == requestBody.input.a[1].content
      sent == SelectSeq(content, LAMBDA segment :
                 /\ segment.type = "input_file"
                 /\ \E k \in 1..Len(BinaryIds) : segment.file_id = BinaryIds[k])
  IN [k \in 1..Len(sent) |-> sent[k].file_id]

\* s is t with some elements left out
RECURSIVE IsSubsequence(_, _)
IsSubsequence(s, t) ==
  IF s = <<>> THEN TRUE
  ELSE IF t = <<>> THEN FALSE
  ELSE IF Head(s) = Head(t) THEN IsSubsequence(Tail(s), Tail(t))
  ELSE IsSubsequence(s, Tail(t))

\* C24: with Process All Binary Items on, a binary property whose read or
\* upload fails is skipped alone: the completion request is still sent, it
\* holds one input_file segment per successful upload, in upload order, and
\* the row yields a result record when the completion succeeds.
C24_FailedBinarySkippedAlone ==
  (pc \in {"next", "thrown"} /\ variant = "operation" /\ ProcessAll(params) /\ OwnFileReady(i)) =>
    /\ Cardinality(RowCalls(i, "/v1/responses")) = 1
    /\ Len(BinarySegmentIds) =
         Cardinality({c \in 1..Len(LoopUploads(i)) : calls[LoopUploads(i)[c]].ok})
    /\ IsSubsequence(BinarySegmentIds, BinaryIds)
    /\ RowSucceeded(i) => (pc = "next" /\ ~Has(outputData, "error"))

C24_Witness ==
  /\ pc = "next" /\ variant = "operation" /\ operation = "processFileId" /\ ProcessAll(params)
  /\ Len(LoopUploads(i)) = 2
  /\ ~calls[LoopUploads(i)[1]].ok /\ calls[LoopUploads(i)[2]].ok
  /\ Len(BinarySegmentIds) = 1
  /\ RowSucceeded(i) /\ ~Has(outputData, "error")

----------------------------------------------------------------------------
(* Claims about the rows of a batch                                        *)

\* the ids of the uploads of the binary properties of row k itself
OwnBinaryIds(k) == { BinaryUploadId(<<k, items[k][n]>>) : n \in 1..Len(items[k]) }

\* C25: rows are processed one after the other and independently: every call
\* of a row comes after the record of the row before it, and the calls and
\* the completion request of a row do not depend on the binary data of
\* another row: the row uploads, and sends segments for, its own binary
\* properties only.
C25_RowsIndependent ==
  /\ \A c \in 1..Len(calls) :
       /\ calls[c].row <= i
       /\ pc = "loop" => calls[c].row < i
       /\ calls[c].row > 1 => Len(returnData) >= calls[c].row - 1 \/ ~continueOnFail
       /\ \A d \in 1..c : calls[d].row <= calls[c].row
  /\ (pc \in {"next", "thrown"} /\ variant = "operation" /\ Has(requestBody, "input")
        /\ requestBody.input.t = "arr") =>
       /\ Len(LoopUploads(i)) <= Len(items[i])
       /\ \A k \in 1..Len(BinarySegmentIds) : BinarySegmentIds[k] \in OwnBinaryIds(i)

\* the positions in the log of the calls of row k, in order
RowLog(k) == SelectSeq([c \in 1..Len(calls) |-> c], LAMBDA c : calls[c].row = k)

\* the calls of row k whose failure ends the row: all but the uploads of the
\* Process All Binary Items loop
IsLoopUpload(k, c) == \E n \in 1..Len(LoopUploads(k)) : LoopUploads(k)[n] = c

----------------------------------------------------------------------------
(* Further claims about parseFileInput                                     *)

\* C27: for every input shape the sequence parseFileInput returns never
\* contains an empty or whitespace-only token and never contains the
\* placeholder [object Object].
C27_NoEmptyOrPlaceholderToken ==
  pc = "returned" =>
    \A k \in 1..Len(tokens) :
      /\ \E c \in 1..Len(tokens[k]) : ~IsSpace(tokens[k][c])
      /\ tokens[k] /= ObjectObject

----------------------------------------------------------------------------
(* Claims about the citations                                              *)

\* the url_citation annotations of a segment, in order, as citation records
UrlCitations(segment) ==
  IF Get(segment, "annotations").t = "arr" THEN
    LET cited == SelectSeq(Get(segment, "annotations").a,
                           LAMBDA a : Get(a, "type") = Str(<<"url_citation">>))
    IN [k \in 1..Len(cited) |->
          [url |-> Get(cited[k], "url"), title |-> Get(cited[k], "title"),
           startIndex |-> Get(cited[k], "start_index"), endIndex |-> Get(cited[k], "end_index")]]
  ELSE <<>>

\* C28: whenever the result record has citations, they are the url_citation
\* annotations, in order and mapped to {url, title, startIndex, endIndex}, of
\* the output_text segment whose text is the record's text.
C28_CitationsOfTheTextSegment ==
  (pc = "extracted" /\ variant = "files" /\ Has(outputData, "citations")) =>
    \E k \in TextEntries :
      \E m \in TextSegments(Get(response, "output").a[k]) :
        LET segment == Get(Get(response, "output").a[k], "content").a[m] IN
        /\ outputData.text = Get(segment, "text")
        /\ outputData.citations = UrlCitations(segment)

----------------------------------------------------------------------------
(* The options of the HTTP requests alone: credentials and download URLs   *)

\* const baseUrl = credentials.baseUrl || 'https://api.openai.com', lines 502, 1309
BaseUrl(credentials) ==
  IF credentials.baseUrl = <<>> THEN <<"https://", "api.openai.com">> ELSE credentials.baseUrl

\* 'Authorization': `Bearer ${credentials.apiKey}`
AuthorizationHeader(credentials) == [Authorization |-> <<"Bearer ">> \o credentials.apiKey]

\* a deviation from OrganizationHeader: the header is always set
OrganizationHeaderAlways(credentials) == "OpenAI-Organization" :> credentials.organizationId

\* if (credentials.organizationId) headers['OpenAI-Organization'] = ..., lines 620-622
OrganizationHeader(credentials) ==
  IF credentials.organizationId /= <<>>
  THEN "OpenAI-Organization" :> credentials.organizationId ELSE NoKeys

\* lines 573-578: the download of the file URL; no headers are given
DownloadOptions(fileUrl) == [method |-> "GET", url |-> fileUrl, headers |-> NoKeys]

\* lines 540-550, 609-622, 785-797: the upload
UploadOptions(credentials) ==
  [method |-> "POST", url |-> BaseUrl(credentials) \o <<"/v1/files">>,
   headers |-> AuthorizationHeader(credentials)
                 @@ ("content-type" :> <<"multipart/form-data">>)
                 @@ OrganizationHeader(credentials)]

\* lines 870-883, 1559-1573: the completion request
ResponsesOptions(credentials) ==
  [method |-> "POST", url |-> BaseUrl(credentials) \o <<"/v1/responses">>,
   headers |-> AuthorizationHeader(credentials)
                 @@ ("Content-Type" :> <<"application/json">>)
                 @@ OrganizationHeader(credentials)]

CredentialChoices ==
  [apiKey : {<<"sk-", "1">>, <<"sk-", "2">>},
   organizationId : {<<>>, <<"org-", "1">>},
   baseUrl : {<<>>, <<"https://", "proxy">>}]

FileUrls ==
  { <<"https://", "a">>, <<"http://", "a", "/", "b">>, <<"https://", "api.openai.com", "/", "x">>,
    <<"https://", "proxy", "/v1/files">>, <<>> }

InitCalls ==
  /\ pc = "request"
  /\ variant \in {"operation", "files"}
  /\ operation = (IF variant = "operation" THEN "uploadAndProcess" ELSE "none")
  /\ params \in [credentials : CredentialChoices, fileUrl : FileUrls]
  /\ continueOnFail = FALSE /\ items = <<>>
  /\ i = 1 /\ returnData = <<>> /\ calls = <<>> /\ raised = Undef
  /\ fileId = Undef /\ uploadedId = Undef /\ requestBody = NoKeys
  /\ response = Undef /\ outputData = NoKeys
  /\ IdleParse

\* this.helpers.httpRequest(options): the request leaves with these options
Issue(options) ==
  /\ calls' = Append(calls, options)
  /\ pc' = "issued"
  /\ UNCHANGED <<i, returnData, raised, rowVars, batchVars, parseVars>>

IssueDownload ==
  /\ pc = "request" /\ variant = "operation"
  /\ Issue(DownloadOptions(params.fileUrl))

IssueUpload ==
  /\ pc = "request" /\ variant = "operation"
  /\ Issue(UploadOptions(params.credentials))

IssueResponses ==
  /\ pc = "request"
  /\ Issue(ResponsesOptions(params.credentials))

NextCalls == IssueDownload \/ IssueUpload \/ IssueResponses

SpecCalls == InitCalls /\ [][NextCalls]_vars

----------------------------------------------------------------------------
(* Claims about the credentials                                            *)

ConfiguredBaseUrl ==
  IF params.credentials.baseUrl = <<>> THEN <<"https://", "api.openai.com">>
  ELSE params.credentials.baseUrl

\* C29: every POST goes to baseUrl/v1/files or baseUrl/v1/responses and
\* carries Authorization: Bearer <apiKey>, and the OpenAI-Organization header
\* exactly when an organization identifier is configured; the GET that
\* downloads a file URL carries neither header, for every URL.
C29_KeySentOnlyToBaseUrl ==
  \A c \in 1..Len(calls) :
    IF calls[c].method = "POST" THEN
      /\ calls[c].url \in {ConfiguredBaseUrl \o <<"/v1/files">>,
                           ConfiguredBaseUrl \o <<"/v1/responses">>}
      /\ "Authorization" \in DOMAIN calls[c].headers
      /\ calls[c].headers["Authorization"] = <<"Bearer ">> \o params.credentials.apiKey
      /\ "OpenAI-Organization" \in DOMAIN calls[c].headers
           <=> params.credentials.organizationId /= <<>>
      /\ "OpenAI-Organization" \in DOMAIN calls[c].headers
           => calls[c].headers["OpenAI-Organization"] = params.credentials.organizationId
    ELSE
      /\ calls[c].method = "GET" /\ calls[c].url = params.fileUrl
      /\ {"Authorization", "OpenAI-Organization"} \cap DOMAIN calls[c].headers = {}

C29_Witness ==
  /\ pc = "issued" /\ Len(calls) = 1
  /\ calls[1].method = "GET"
  /\ calls[1].url = <<"https://", "api.openai.com", "/", "x">>
  /\ params.credentials.organizationId /= <<>>
  /\ DOMAIN calls[1].headers = {}

C29_WitnessUpload ==
  /\ pc = "issued" /\ Len(calls) = 1
  /\ calls[1].method = "POST"
  /\ params.credentials.organizationId = <<>>
  /\ "OpenAI-Organization" \notin DOMAIN calls[1].headers

----------------------------------------------------------------------------
(* Claims about the counts of the record                                   *)

\* the segments of a type in the user turn of the request; none when the
\* input is the prompt string
SegmentsSent(type) ==
  IF requestBody.input.t = "arr"
  THEN SelectSeq(requestBody.input.a[1].content, LAMBDA segment : segment.type = type)
  ELSE <<>>

\* C30: in the prompt/pdfFiles/imageFiles execute the request uses the list
\* form of input only when a file or image segment follows the prompt, and
\* the record's pdfCount and imageCount are the numbers of PDF and image
\* segments sent in the request.
C30_CountsAreSegmentsSent ==
  (pc = "next" /\ variant = "files" /\ Has(requestBody, "input")) =>
    /\ requestBody.input.t = "arr" =>
         Len(SegmentsSent("input_file")) + Len(SegmentsSent("input_image")) >= 1
    /\ Has(outputData, "pdfCount") =>
         /\ outputData.pdfCount = Len(SegmentsSent("input_file"))
         /\ outputData.imageCount = Len(SegmentsSent("input_image"))

====
